---- MODULE Spec2Model ----
(***************************************************************************)
(* StrmSync: the catalog synchronization engine (main.run_pipeline), the   *)
(* pointer-file tree (strm_utils), the decision cache (core.SQLiteCache),  *)
(* the oracle client's retry loops and its rate limiter (api_utils,        *)
(* m3u_utils).                                                             *)
(*                                                                         *)
(* Specifications:                                                         *)
(*   Spec           successive runs of main.run_pipeline over a persisted  *)
(*                  store and output tree.                                 *)
(*   SpecCleanup    cleanup_strm_tree applied to an arbitrary output tree  *)
(*                  and cache (a function of its two arguments).           *)
(*   SpecRetry      the lookups of one entry and their retry loops;        *)
(*   SpecRetryFair  the same, every request answered.                      *)
(*   SpecLimiter    RateLimiter.acquire called from the worker threads of  *)
(*                  the classification pool;                               *)
(*   SpecLimiterFair  the same, every thread that can run runs.            *)
(*   SpecDedup      the deduplication loop of run_pipeline on a parsed     *)
(*                  playlist.                                              *)
(*   SpecParse      parse_m3u at the URL line of one entry.                *)
(*   SpecKey        core.canonical_movie_key on two titles.                *)
(*   SpecPreFilter  ContentPreFilter.should_skip_tmdb on one title.        *)
(*   SpecLines      the line loop of parse_m3u on a playlist file.         *)
(*   SpecLookup     the lookups of successive movie entries of one title   *)
(*                  over the lookup cache.                                 *)
(*   SpecSelect     the choice of the TV search result the decision is     *)
(*                  taken on.                                              *)
(*   SpecCounters   the write pool of run_pipeline and its two counters.   *)
(*   SpecWebJob     successive jobs of the web dashboard                   *)
(*                  (JobManager._run_pipeline_logic).                      *)
(***************************************************************************)
EXTENDS Integers, Sequences, FiniteSets, TLC

VARIABLES
    c_tree,      \* SpecCleanup: the output tree handed to cleanup_strm_tree
    c_cache,     \* SpecCleanup: the cache dict handed to cleanup_strm_tree
    c_pre,       \* SpecCleanup: the tree as it was before the call
    c_pc,        \* SpecCleanup: "ready" before the call, "done" after it
    r_mode,      \* SpecRetry: "with_retry" (split_by_market_filter) or
                 \*   "make_request" (split_by_market_filter_enhanced)
    r_cat,       \* SpecRetry: the entry's category
    r_year,      \* SpecRetry: whether extract_year found a year
    r_countries, \* SpecRetry: the configured country allow-list
    r_factor,    \* SpecRetry: the factor the delay is multiplied by
    r_pc,        \* SpecRetry: the lookup in progress, or "done"
    r_attempt,   \* SpecRetry: attempts made by the retry loop in progress
    r_delay,     \* SpecRetry: the loop's backoff delay
    r_all429,    \* SpecRetry: every answer to the loop so far was a 429
    r_s1,        \* SpecRetry: outcome of the first search
    r_s2,        \* SpecRetry: outcome of the search without year
    r_det,       \* SpecRetry: outcome of the details lookup
    r_result,    \* SpecRetry: "none", "allowed", "excluded" or "raise"
    r_loops,     \* SpecRetry: retry loops started for the entry
    r_total,     \* SpecRetry: attempts made for the entry, all loops
    r_onlyFail,  \* SpecRetry: every answer so far was a 429 or a network failure
    l_pc,        \* SpecLimiter: where each worker thread is in acquire
    l_locked,    \* SpecLimiter: asyncio.Lock._locked
    l_waiters,   \* SpecLimiter: asyncio.Lock._waiters, the waiting threads
    l_woken,     \* SpecLimiter: the waiters whose future has its result
    l_loop,      \* SpecLimiter: the event loop the lock is bound to
    last_request_time, \* SpecLimiter: RateLimiter.last_request_time
    l_now,       \* SpecLimiter: time.time()
    l_wake,      \* SpecLimiter: when each sleeping thread's sleep ends
    l_done,      \* SpecLimiter: acquire calls each thread has finished
    l_prevGrant, \* SpecLimiter: time of the permit before the latest
    l_lastGrant, \* SpecLimiter: time of the latest permit
    phase,           \* Spec: the phase of run_pipeline, "idle" between runs
    run,             \* Spec: "none", or which of the runs followed is the latest
    library,         \* Spec: the keys build_existing_media_cache found
    enable_batch_processing, \* Spec: cfg.enable_batch_processing
    existing_media,  \* Spec: the persisted table existing_media (its keys)
    strm_cache,      \* Spec: the persisted table strm_cache
    output_dir,      \* Spec: the tree below cfg.output_dir
    existing_keys,   \* Spec: run_pipeline's existing_keys
    entries,         \* Spec: the deduplicated entries
    to_check,        \* Spec: the entries handed to the oracle client
    reused_allowed,  \* Spec: entries resolved as allowed without the oracle
    reused_excluded, \* Spec: entries resolved as excluded from the cache
    allowed,         \* Spec: run_pipeline's allowed
    excluded,        \* Spec: run_pipeline's excluded
    exhausted,       \* Spec: entries one of whose lookups used up its attempts
    new_cache,       \* Spec: run_pipeline's new_cache
    outcome,         \* Spec: what process_entry did with each allowed entry
    h_prev,          \* Spec: the run before the current one
    h_excluded,      \* Spec: keys excluded and persisted by earlier completed runs
    h_allowed,       \* Spec: keys the oracle has classified allowed, in any run
    h_store,         \* Spec: the persisted store as it was when the run started
    d_pc,            \* SpecDedup: "off", "loop" or "done"
    d_playlist,      \* SpecDedup: the parsed entries, in parse order
    d_i,             \* SpecDedup: the index of the next entry of the loop
    d_unique,        \* SpecDedup: run_pipeline's unique_entries
    d_entries,       \* SpecDedup: the entries after the deduplication
    g_pc,            \* SpecParse: "off", "url" (at the URL line) or "done"
    g_group,         \* SpecParse: the group-title of the #EXTINF line, or "None"
    g_title,         \* SpecParse: cur_title, the title of the #EXTINF line
    g_keywords,      \* SpecParse: the configured keyword lists, as written
    g_cat,           \* SpecParse: parse_m3u's cat
    g_appended,      \* SpecParse: whether the entry was appended to entries
    k_pc,            \* SpecKey: "off", "titles" or "done"
    k_titles,        \* SpecKey: two titles, a and b
    k_keys,          \* SpecKey: canonical_movie_key of a and of b
    f_pc,            \* SpecPreFilter: "off", "title" or "done"
    f_title,         \* SpecPreFilter: the title given to should_skip_tmdb
    f_skip,          \* SpecPreFilter: should_skip of the returned tuple
    f_reason,        \* SpecPreFilter: "pattern", "language" or "tmdb"
    m_pc,            \* SpecLines: "off", "loop" or "done"
    m_lines,         \* SpecLines: the lines of the playlist file
    m_i,             \* SpecLines: the index of the next line
    m_cur,           \* SpecLines: parse_m3u's cur_title and cur_group
    m_entries,       \* SpecLines: parse_m3u's entries
    t_pc,            \* SpecLookup: "off", "idle" or the lookup that comes next
    t_path,          \* SpecLookup: "sequential" (_movie_tmdb_lookup) or
                     \*   "client" (check_movie over EnhancedTMDbClient)
    t_year,          \* SpecLookup: whether the entry's title has a year
    t_store,         \* SpecLookup: the lookup cache, what each key holds
    t_hit,           \* SpecLookup: whether the first search was a cache hit
    t_last,          \* SpecLookup: the lookup made by the latest step
    t_result,        \* SpecLookup: "none", "excluded" or "decided"
    s_pc,            \* SpecSelect: "off", "results" or "done"
    s_results,       \* SpecSelect: data["results"] of the TV search
    s_year,          \* SpecSelect: the entry's year, or "None"
    s_allowed,       \* SpecSelect: allowed_tv_countries
    s_best,          \* SpecSelect: the result the decision is taken on
    w_phase,         \* SpecCounters: "off", "pool" or "joined"
    w_left,          \* SpecCounters: the allowed entries not yet handed out
    w_pc,            \* SpecCounters: each worker's place in process_entry
    w_ctr,           \* SpecCounters: the counter each worker is adding to
    w_reg,           \* SpecCounters: the value each worker has loaded
    w_counted,       \* SpecCounters: the entries that reached an increment
    written_count,   \* SpecCounters: run_pipeline's written_count
    skipped_count,   \* SpecCounters: run_pipeline's skipped_count
    j_phase,         \* SpecWebJob: "off", "idle", "classify", "write",
                     \*   "done" or "failed"
    j_job,           \* SpecWebJob: "none", "first" or "second"
    j_dry,           \* SpecWebJob: dry_run of the job
    j_store,         \* SpecWebJob: the persisted decision cache
    j_tree,          \* SpecWebJob: the output tree
    j_keys,          \* SpecWebJob: existing_keys
    j_entries,       \* SpecWebJob: the deduplicated entries
    j_to_check,      \* SpecWebJob: to_check
    j_reused,        \* SpecWebJob: reused_allowed
    j_allowed,       \* SpecWebJob: allowed
    j_excluded,      \* SpecWebJob: excluded
    j_new_cache,     \* SpecWebJob: new_cache
    j_processed,     \* SpecWebJob: the entries process_entry has returned for
    h_job            \* SpecWebJob: the job before (history)

cvars == <<c_tree, c_cache, c_pre, c_pc>>
rvars == <<r_mode, r_cat, r_year, r_countries, r_factor, r_pc, r_attempt, r_delay,
           r_all429, r_s1, r_s2, r_det, r_result, r_loops, r_total, r_onlyFail>>
lvars == <<l_pc, l_locked, l_waiters, l_woken, l_loop, last_request_time,
           l_now, l_wake, l_done, l_prevGrant, l_lastGrant>>
pvars == <<phase, run, library, enable_batch_processing,
           existing_media, strm_cache, output_dir,
           existing_keys, entries, to_check, reused_allowed, reused_excluded,
           allowed, excluded, exhausted, new_cache, outcome, h_prev, h_excluded, h_allowed,
           h_store>>
dvars == <<d_pc, d_playlist, d_i, d_unique, d_entries>>
gvars == <<g_pc, g_group, g_title, g_keywords, g_cat, g_appended>>
kvars == <<k_pc, k_titles, k_keys>>
fvars == <<f_pc, f_title, f_skip, f_reason>>
mvars == <<m_pc, m_lines, m_i, m_cur, m_entries>>
tvars == <<t_pc, t_path, t_year, t_store, t_hit, t_last, t_result>>
svars == <<s_pc, s_results, s_year, s_allowed, s_best>>
wvars == <<w_phase, w_left, w_pc, w_ctr, w_reg, w_counted, written_count, skipped_count>>
jvars == <<j_phase, j_job, j_dry, j_store, j_tree, j_keys, j_entries, j_to_check,
           j_reused, j_allowed, j_excluded, j_new_cache, j_processed, h_job>>
uvars == <<dvars, gvars, kvars, fvars, mvars, tvars, svars, wvars, jvars>>
vars == <<cvars, rvars, lvars, pvars, uvars>>

(***************************************************************************)
(* Paths and the output tree.  A path is the sequence of its components    *)
(* below the output root (base_dir); << >> is base_dir itself.  A tree is  *)
(* the set of its directories and a map from file path to file content.    *)
(* Nothing in the model is a symbolic link, so Path.resolve() of an        *)
(* absolute path below base_dir is that same path.                         *)
(***************************************************************************)
Parent(p) == SubSeq(p, 1, Len(p) - 1)

Name(p) == p[Len(p)]

\* A cache record's path column when it is NULL (Python None).
NoPath == << >>

\* A cache record's allowed column: INTEGER 1, 0 or NULL, kept as strings.
AllowedValues == {"1", "0", "None"}

\* File names by what the code asks of them: f.endswith(".strm") is
\* case-sensitive, f.suffix.lower() == ".nfo" is not.
StrmFileNames == {"a.strm", "b.strm", "s.strm", "c.strm"}

NfoFileNames == {"a.nfo", "tvshow.NFO"}

OtherFileNames == {"poster.jpg", "a.STRM"}

\* The names of the directory entries that are neither a regular file nor a
\* directory (a dangling symbolic link, a FIFO): os.walk lists them among
\* the filenames, Path.is_file() and Path.is_dir() are False for them.
SpecialFileNames == {"ghost.jpg"}

\* Path.is_file() on an entry of the tree's file map.
is_file(f) == Name(f) \notin SpecialFileNames

EndsWithStrm(name) == name \in StrmFileNames

SuffixLowerIsNfo(name) == name \in NfoFileNames

protected_roots == {"Movies", "TV Shows", "Documentaries"}

EmptyTree == [dirs |-> {<< >>}, files |-> << >>]

FilesIn(t, d) == {f \in DOMAIN t.files : Parent(f) = d}

SubdirsIn(t, d) == {s \in t.dirs : Len(s) > 0 /\ Parent(s) = d}

\* The restriction of a file map to the paths of keep.
Restrict(fm, keep) == [f \in (DOMAIN fm) \cap keep |-> fm[f]]

\* valid_paths of cleanup_strm_tree: the paths of the records whose path is
\* truthy.
ValidPaths(cache) ==
    {cache[k].path : k \in {x \in DOMAIN cache : cache[x].path # NoPath}}

\* One directory of the bottom-up walk: the orphan pointer files of dirp.
OrphansInAnyStrm(t, dirp, valid) ==
    {f \in FilesIn(t, dirp) : EndsWithStrm(Name(f))}

OrphansIn(t, dirp, valid) ==
    {f \in FilesIn(t, dirp) : EndsWithStrm(Name(f)) /\ f \notin valid}

\* One directory of the bottom-up walk, after its orphans are unlinked in
\* tree t: whether the directory itself is removed (rmdir or rmtree).
\* files = [f for f in items if f.is_file()]
RegularFilesIn(t, dirp) == {f \in FilesIn(t, dirp) : is_file(f)}

\* Lines 62-69: without files and without subdirs, dirp.rmdir(), which
\* raises (and is caught) unless the directory is empty; with files that
\* all have the suffix .nfo and without subdirs, shutil.rmtree(dirp).
RemovedByRmdirOrRmtree(t, dirp) ==
    /\ SubdirsIn(t, dirp) = {}
    /\ IF RegularFilesIn(t, dirp) = {}
       THEN FilesIn(t, dirp) = {}
       ELSE \A f \in RegularFilesIn(t, dirp) : SuffixLowerIsNfo(Name(f))

NoProtectionRemovable(t, dirp) == RemovedByRmdirOrRmtree(t, dirp)

Removable(t, dirp) ==
    /\ ~(Len(dirp) > 0 /\ Name(dirp) \in protected_roots)
    /\ RemovedByRmdirOrRmtree(t, dirp)

\* The walk's visit of every directory of depth n.  Directories of one
\* depth are siblings or cousins: the visit of one reads and changes
\* nothing of another, so they are visited together.
CleanupLevel(t, n, valid) ==
    LET level == {d \in t.dirs : Len(d) = n}
        orphans == UNION {OrphansIn(t, d, valid) : d \in level}
        t1 == [dirs |-> t.dirs,
               files |-> Restrict(t.files, DOMAIN t.files \ orphans)]
        gone == {d \in level : Removable(t1, d)}
    IN  [dirs |-> t1.dirs \ gone,
         files |-> Restrict(t1.files,
                            {f \in DOMAIN t1.files : Parent(f) \notin gone})]

RECURSIVE CleanupFrom(_, _, _)
CleanupFrom(t, n, valid) ==
    IF n < 0 THEN t
    ELSE CleanupFrom(CleanupLevel(t, n, valid), n - 1, valid)

Depth(t) ==
    IF t.dirs = {} THEN 0
    ELSE CHOOSE n \in {Len(d) : d \in t.dirs} :
             \A d \in t.dirs : Len(d) <= n

\* cleanup_strm_tree(base_dir, cache): os.walk(base_dir, topdown=False)
\* visits the deepest directories first and base_dir last.
EmptyCacheAlsoCleaned(t, cache) ==
    IF << >> \notin t.dirs THEN t
    ELSE CleanupFrom(t, Depth(t), ValidPaths(cache))

cleanup_strm_tree(t, cache) ==
    IF << >> \notin t.dirs THEN t
    ELSE IF DOMAIN cache = {} THEN t
    ELSE CleanupFrom(t, Depth(t), ValidPaths(cache))


(***************************************************************************)
(* The oracle's answers and the decision algorithms.                       *)
(*                                                                         *)
(* The outcome of one lookup (search or details) is a record: st is "data" *)
(* for a parsed answer, "exhausted" when the retry loop used up its        *)
(* attempts on 429 answers, "failed" for a lookup given up for any other   *)
(* reason, "body429" for the body of a 429 answer read as data (the        *)
(* release lookup of _movie_tmdb_lookup does not look at the status).      *)
(* original_language "None" is a JSON null.                                *)
(***************************************************************************)
Countries == {"US", "FR"}

Langs == {"en", "ja", "fr", "None"}

NoOutcome == [st |-> "none", nonempty |-> FALSE, id |-> FALSE, lang |-> "en", countries |-> {}]

Gave(st) == [st |-> st, nonempty |-> FALSE, id |-> FALSE, lang |-> "en", countries |-> {}]

\* The answers of a search: no result, or a best result with or without id.
SearchPayloads ==
    {Gave("data")} \cup
    {[st |-> "data", nonempty |-> TRUE, id |-> i, lang |-> l, countries |-> {}] :
        i \in BOOLEAN, l \in Langs}

\* The answers of a details lookup: the countries it names (release
\* countries of a movie; network, production and origin countries of a show).
DetailsPayloads ==
    {[st |-> "data", nonempty |-> TRUE, id |-> TRUE, lang |-> "en", countries |-> cs] :
        cs \in SUBSET Countries}

HasResults(o) == o.st = "data" /\ o.nonempty

NoJapaneseTest(lang, countries, allowed_countries) ==
    IF lang = "None" THEN "raise"
    ELSE IF lang = "en" /\ allowed_countries = {} THEN "allowed"
    ELSE IF countries \cap allowed_countries # {} THEN "allowed"
    ELSE IF lang = "en" THEN "allowed"
    ELSE "excluded"

\* The tail shared by the four algorithms: best.get("original_language",
\* "").lower() and the language and country tests.
LanguageAndCountry(lang, countries, allowed_countries) ==
    IF lang = "None" THEN "raise"
    ELSE IF lang = "ja" THEN "excluded"
    ELSE IF lang = "en" /\ allowed_countries = {} THEN "allowed"
    ELSE IF countries \cap allowed_countries # {} THEN "allowed"
    ELSE IF lang = "en" THEN "allowed"
    ELSE "excluded"

\* The TV tail has no language fallback.
TvLanguageAndCountry(lang, countries, allowed_countries) ==
    IF lang = "None" THEN "raise"
    ELSE IF lang = "ja" THEN "excluded"
    ELSE IF lang = "en" /\ allowed_countries = {} THEN "allowed"
    ELSE IF countries \cap allowed_countries # {} THEN "allowed"
    ELSE "excluded"

\* The search whose results are used: the first, or the one without year.
UsedSearch(year, s1, s2) == IF ~HasResults(s1) /\ year THEN s2 ELSE s1

\* check_movie of _process_movies_enhanced.process_movie_entry; a lookup
\* that _make_request gave up returns None.
check_movie(year, s1, s2, det, allowed_countries) ==
    LET best == UsedSearch(year, s1, s2)
    IN  IF ~HasResults(best) THEN "excluded"
        ELSE IF ~best.id THEN "excluded"
        ELSE IF det.st # "data" THEN "excluded"
        ELSE LanguageAndCountry(best.lang, det.countries, allowed_countries)

\* check_tv of _process_tv_enhanced.process_tv_entry.
check_tv(s1, det, allowed_countries) ==
    IF ~HasResults(s1) THEN "excluded"
    ELSE IF ~s1.id THEN "excluded"
    ELSE IF det.st # "data" THEN "allowed"
    ELSE TvLanguageAndCountry(s1.lang, det.countries, allowed_countries)

\* with_retry(_movie_tmdb_lookup, ...): False when with_retry runs out of
\* attempts or a request fails; the release lookup reads any body as data.
movie_tmdb_lookup(year, s1, s2, det, allowed_countries) ==
    LET best == UsedSearch(year, s1, s2)
    IN  IF s1.st # "data" THEN "excluded"
        ELSE IF ~HasResults(best) THEN "excluded"
        ELSE IF ~best.id THEN "excluded"
        ELSE IF det.st \notin {"data", "body429"} THEN "excluded"
        ELSE LanguageAndCountry(best.lang, det.countries, allowed_countries)

\* with_retry(_tv_has_allowed_network, ...): _tmdb_get returns None for a
\* failed request and raises for a 429; with_retry returns False when the
\* attempts are used up.
tv_has_allowed_network(s1, det, allowed_countries) ==
    IF ~HasResults(s1) THEN "excluded"
    ELSE IF ~s1.id THEN "excluded"
    ELSE IF det.st = "exhausted" THEN "excluded"
    ELSE IF det.st # "data" THEN "allowed"
    ELSE TvLanguageAndCountry(s1.lang, det.countries, allowed_countries)

\* The decision of one entry from the outcomes of its lookups.
IsMovieLike(cat) == cat \in {"movie", "documentary"}

Decide(mode, cat, year, s1, s2, det, allowed_countries) ==
    IF mode = "make_request"
    THEN IF IsMovieLike(cat) THEN check_movie(year, s1, s2, det, allowed_countries)
         ELSE check_tv(s1, det, allowed_countries)
    ELSE IF IsMovieLike(cat) THEN movie_tmdb_lookup(year, s1, s2, det, allowed_countries)
         ELSE tv_has_allowed_network(s1, det, allowed_countries)


\* The variables of a specification that another specification leaves alone.
CIdle ==
    /\ c_pc = "idle"
    /\ c_tree = EmptyTree
    /\ c_cache = << >>
    /\ c_pre = EmptyTree

NoRun == [done |-> FALSE, entries |-> {}, library |-> {}, outcome |-> << >>]

PIdle ==
    /\ phase = "off"
    /\ run = "none"
    /\ library = {}
    /\ enable_batch_processing = TRUE
    /\ existing_media = {}
    /\ strm_cache = << >>
    /\ output_dir = EmptyTree
    /\ existing_keys = {}
    /\ entries = {}
    /\ to_check = {}
    /\ reused_allowed = {}
    /\ reused_excluded = {}
    /\ allowed = {}
    /\ excluded = {}
    /\ exhausted = {}
    /\ new_cache = << >>
    /\ outcome = << >>
    /\ h_prev = NoRun
    /\ h_excluded = {}
    /\ h_allowed = {}
    /\ h_store = [existing_media |-> existing_media, strm_cache |-> strm_cache]

DIdle ==
    /\ d_pc = "off"
    /\ d_playlist = << >>
    /\ d_i = 1
    /\ d_unique = << >>
    /\ d_entries = {}

GIdle ==
    /\ g_pc = "off"
    /\ g_group = "None"
    /\ g_title = "Film"
    /\ g_keywords = [movie |-> {}, tv |-> {}, doc |-> {}, replay |-> {}]
    /\ g_cat = "none"
    /\ g_appended = FALSE

KIdle ==
    /\ k_pc = "off"
    /\ k_titles = [a |-> << >>, b |-> << >>]
    /\ k_keys = [a |-> << >>, b |-> << >>]

FIdle ==
    /\ f_pc = "off"
    /\ f_title = << >>
    /\ f_skip = FALSE
    /\ f_reason = "none"

\* cur_title, cur_group = None, None
NoBuffer == [title |-> "None", group |-> "None"]

MIdle ==
    /\ m_pc = "off"
    /\ m_lines = << >>
    /\ m_i = 1
    /\ m_cur = NoBuffer
    /\ m_entries = << >>

\* The keys of the lookup cache that the lookups of one movie title use:
\* the search with the year, the search without it, the release dates of
\* the first result.
LookupKeys == {"search_year", "search_none", "details"}

\* No lookup made.
NoLookup == [key |-> "None", cached |-> FALSE, http |-> FALSE, ok |-> FALSE]

TIdle ==
    /\ t_pc = "off"
    /\ t_path = "None"
    /\ t_year = FALSE
    /\ t_store = [k \in LookupKeys |-> "absent"]
    /\ t_hit = FALSE
    /\ t_last = NoLookup
    /\ t_result = "none"

SIdle ==
    /\ s_pc = "off"
    /\ s_results = << >>
    /\ s_year = "None"
    /\ s_allowed = {}
    /\ s_best = 0

PoolWorkers == {"p1", "p2"}

WIdle ==
    /\ w_phase = "off"
    /\ w_left = 0
    /\ w_pc = [t \in PoolWorkers |-> "idle"]
    /\ w_ctr = [t \in PoolWorkers |-> "none"]
    /\ w_reg = [t \in PoolWorkers |-> 0]
    /\ w_counted = 0
    /\ written_count = 0
    /\ skipped_count = 0

NoJob == [done |-> FALSE, dry |-> FALSE, entries |-> {}, keys |-> {}, decided |-> {}]

JIdle ==
    /\ j_phase = "off"
    /\ j_job = "none"
    /\ j_dry = FALSE
    /\ j_store = << >>
    /\ j_tree = EmptyTree
    /\ j_keys = {}
    /\ j_entries = {}
    /\ j_to_check = {}
    /\ j_reused = {}
    /\ j_allowed = {}
    /\ j_excluded = {}
    /\ j_new_cache = << >>
    /\ j_processed = {}
    /\ h_job = NoJob

UIdle == DIdle /\ GIdle /\ KIdle /\ FIdle /\ MIdle /\ TIdle /\ SIdle /\ WIdle /\ JIdle

RIdle ==
    /\ r_mode = "idle"
    /\ r_cat = "movie"
    /\ r_year = FALSE
    /\ r_countries = {}
    /\ r_factor = 2
    /\ r_pc = "done"
    /\ r_attempt = 0
    /\ r_delay = 1
    /\ r_all429 = TRUE
    /\ r_s1 = NoOutcome
    /\ r_s2 = NoOutcome
    /\ r_det = NoOutcome
    /\ r_result = "none"
    /\ r_loops = 0
    /\ r_total = 0
    /\ r_onlyFail = TRUE

(***************************************************************************)
(* SpecLimiter: RateLimiter.acquire.  process_movie_entry and              *)
(* process_tv_entry run in ThreadPoolExecutor workers and each creates its *)
(* own event loop (asyncio.new_event_loop), so the one asyncio.Lock of the *)
(* shared limiter is used from several threads and loops.  asyncio.Lock is *)
(* not thread-safe; what the interpreter can do with it is modelled here:  *)
(*   - the uncontended path of Lock.acquire tests _locked and then sets    *)
(*     it, two steps that another thread can come between;                 *)
(*   - the contended path creates a future on the loop the lock is bound   *)
(*     to (the first contender's loop, or the constructing thread's loop   *)
(*     on interpreters that bind at construction) and raises RuntimeError  *)
(*     when the caller runs another loop;                                  *)
(*   - Lock.release gives the first waiter's future its result from the    *)
(*     releasing thread; the waiter's loop is not woken by that, so the    *)
(*     waiter resumes only if its loop happens to run.                     *)
(* Time is counted in ticks; Delay is RateLimiter.delay in ticks.          *)
(***************************************************************************)
Threads == {"t1", "t2", "t3"}

Delay == 2

MaxTime == 6

MaxAcquires == 1

NoGrant == 0 - 1

LIdle ==
    /\ l_pc = [t \in Threads |-> "off"]
    /\ l_locked = FALSE
    /\ l_waiters = << >>
    /\ l_woken = {}
    /\ l_loop = "none"
    /\ last_request_time = 0
    /\ l_now = 0
    /\ l_wake = [t \in Threads |-> 0]
    /\ l_done = [t \in Threads |-> 0]
    /\ l_prevGrant = NoGrant
    /\ l_lastGrant = NoGrant

\* RateLimiter.__init__; the clock starts late enough for the first call not
\* to wait (time.time() - 0.0 is far above delay).
LInit ==
    /\ CIdle
    /\ RIdle
    /\ PIdle
    /\ UIdle
    /\ l_pc = [t \in Threads |-> "idle"]
    /\ l_locked = FALSE
    /\ l_waiters = << >>
    /\ l_woken = {}
    /\ l_loop \in {"none", "main"}
    /\ last_request_time = 0
    /\ l_now = Delay
    /\ l_wake = [t \in Threads |-> 0]
    /\ l_done = [t \in Threads |-> 0]
    /\ l_prevGrant = NoGrant
    /\ l_lastGrant = NoGrant

LFrame == UNCHANGED <<cvars, rvars, pvars, uvars>>

\* await self.rate_limiter.acquire() of one lookup.
CallAcquire(t) ==
    /\ l_pc[t] = "idle"
    /\ l_done[t] < MaxAcquires
    /\ l_pc' = [l_pc EXCEPT ![t] = "test"]
    /\ UNCHANGED <<l_locked, l_waiters, l_woken, l_loop, last_request_time,
                   l_now, l_wake, l_done, l_prevGrant, l_lastGrant>>
    /\ LFrame

\* Lock.acquire: the test of _locked and _waiters.
LockFree == ~l_locked /\ l_waiters = << >>

LockTest(t) ==
    /\ l_pc[t] = "test"
    /\ IF LockFree
       THEN /\ l_pc' = [l_pc EXCEPT ![t] = "set"]
            /\ UNCHANGED <<l_waiters, l_loop>>
       ELSE IF l_loop \in {"none", t}
       THEN /\ l_pc' = [l_pc EXCEPT ![t] = "waiting"]
            /\ l_waiters' = Append(l_waiters, t)
            /\ l_loop' = t
       ELSE /\ l_pc' = [l_pc EXCEPT ![t] = "raised"]
            /\ UNCHANGED <<l_waiters, l_loop>>
    /\ UNCHANGED <<l_locked, l_woken, last_request_time, l_now, l_wake, l_done,
                   l_prevGrant, l_lastGrant>>
    /\ LFrame

\* Lock.acquire: self._locked = True, after the test found the lock free.
LockSet(t) ==
    /\ l_pc[t] = "set"
    /\ l_locked' = TRUE
    /\ l_pc' = [l_pc EXCEPT ![t] = "read_time"]
    /\ UNCHANGED <<l_waiters, l_woken, l_loop, last_request_time, l_now,
                   l_wake, l_done, l_prevGrant, l_lastGrant>>
    /\ LFrame

\* Lock.acquire: the first waiter's loop runs after release gave its future
\* a result; the waiter leaves the queue and takes the lock.
WaiterResumes(t) ==
    /\ l_pc[t] = "waiting"
    /\ t \in l_woken
    /\ l_woken' = l_woken \ {t}
    /\ l_waiters' = SelectSeq(l_waiters, LAMBDA w : w # t)
    /\ l_locked' = TRUE
    /\ l_pc' = [l_pc EXCEPT ![t] = "read_time"]
    /\ UNCHANGED <<l_loop, last_request_time, l_now, l_wake, l_done,
                   l_prevGrant, l_lastGrant>>
    /\ LFrame

\* current_time = time.time(); the wait, if the spacing has not elapsed.
ReadTime(t) ==
    /\ l_pc[t] = "read_time"
    /\ IF l_now - last_request_time < Delay
       THEN /\ l_pc' = [l_pc EXCEPT ![t] = "sleeping"]
            /\ l_wake' = [l_wake EXCEPT ![t] = l_now + (Delay - (l_now - last_request_time))]
       ELSE /\ l_pc' = [l_pc EXCEPT ![t] = "stamp"]
            /\ UNCHANGED l_wake
    /\ UNCHANGED <<l_locked, l_waiters, l_woken, l_loop, last_request_time,
                   l_now, l_done, l_prevGrant, l_lastGrant>>
    /\ LFrame

\* await asyncio.sleep(wait_time) returns.
SleepEnds(t) ==
    /\ l_pc[t] = "sleeping"
    /\ l_now >= l_wake[t]
    /\ l_pc' = [l_pc EXCEPT ![t] = "stamp"]
    /\ UNCHANGED <<l_locked, l_waiters, l_woken, l_loop, last_request_time,
                   l_now, l_wake, l_done, l_prevGrant, l_lastGrant>>
    /\ LFrame

\* self.last_request_time = time.time(): the permit is granted.
Stamp(t) ==
    /\ l_pc[t] = "stamp"
    /\ last_request_time' = l_now
    /\ l_prevGrant' = l_lastGrant
    /\ l_lastGrant' = l_now
    /\ l_pc' = [l_pc EXCEPT ![t] = "release"]
    /\ UNCHANGED <<l_locked, l_waiters, l_woken, l_loop, l_now, l_wake, l_done>>
    /\ LFrame

\* Lock.release at the end of the async with block: _locked = False and
\* _wake_up_first().
Release(t) ==
    /\ l_pc[t] = "release"
    /\ l_locked' = FALSE
    /\ l_woken' = IF l_waiters # << >> THEN l_woken \cup {Head(l_waiters)} ELSE l_woken
    /\ l_pc' = [l_pc EXCEPT ![t] = "idle"]
    /\ l_done' = [l_done EXCEPT ![t] = @ + 1]
    /\ UNCHANGED <<l_waiters, l_loop, last_request_time, l_now, l_wake,
                   l_prevGrant, l_lastGrant>>
    /\ LFrame

\* Time passes.
Tick ==
    /\ l_now < MaxTime
    /\ l_pc # [t \in Threads |-> "off"]
    /\ l_now' = l_now + 1
    /\ UNCHANGED <<l_pc, l_locked, l_waiters, l_woken, l_loop, last_request_time,
                   l_wake, l_done, l_prevGrant, l_lastGrant>>
    /\ LFrame

LNext ==
    \/ \E t \in Threads :
         \/ CallAcquire(t)
         \/ LockTest(t)
         \/ LockSet(t)
         \/ WaiterResumes(t)
         \/ ReadTime(t)
         \/ SleepEnds(t)
         \/ Stamp(t)
         \/ Release(t)
    \/ Tick

SpecLimiter == LInit /\ [][LNext]_vars

\* The steps of thread t that its own event loop takes once it runs: every
\* step of acquire but the resumption of a waiter.
RunsOn(t) ==
    \/ LockTest(t)
    \/ LockSet(t)
    \/ ReadTime(t)
    \/ SleepEnds(t)
    \/ Stamp(t)
    \/ Release(t)

\* Time passes and every thread that can take a step of its own takes it.
\* A waiter is resumed by fut.set_result(True) called in the releasing
\* thread: the callback is put on the waiter's loop with call_soon, which
\* does not wake a loop blocked in its selector, so nothing makes
\* WaiterResumes happen.
SpecLimiterFair ==
    /\ SpecLimiter
    /\ WF_vars(Tick)
    /\ \A t \in Threads : WF_vars(RunsOn(t))

(***************************************************************************)
(* SpecRetry: the lookups of one entry, one answer of the service per      *)
(* step.  Under "with_retry" one loop (with_retry) runs the whole lookup   *)
(* function again after a 429; under "make_request" each lookup runs its   *)
(* own loop (_make_request).  An attempt is one iteration of a loop.       *)
(***************************************************************************)
max_retries == 5

MaxDelay == 30

\* The literal 2 of with_retry and the default of backoff_factor.
BackoffFactor == 2

\* The values of cfg.api_backoff_factor followed (config.py requires at
\* least 1).
BackoffFactors == {1, 2, 3}

Min(a, b) == IF a < b THEN a ELSE b

\* delay = min(delay * 2, 30), delay = min(delay * self.backoff_factor, 30)
NextDelayUncapped(delay, factor) == delay * factor

NextDelay(delay, factor) == Min(delay * factor, MaxDelay)

\* for attempt in range(max_retries): no attempt is left after this one.
LastAttemptOffByOne(attempt) == attempt > max_retries

LastAttempt(attempt) == attempt >= max_retries

Categories == {"movie", "tvshow", "documentary"}

\* The lookup that follows the one that ended with outcome o.
NextStage(mode, cat, year, pc, o) ==
    IF pc = "details" THEN "done"
    ELSE IF HasResults(o) THEN (IF o.id THEN "details" ELSE "done")
    ELSE IF /\ pc = "search"
            /\ IsMovieLike(cat)
            /\ year
            /\ (mode = "make_request" \/ o.st = "data")
         THEN "search_noyear"
    ELSE "done"

RInit ==
    /\ CIdle
    /\ LIdle
    /\ PIdle
    /\ UIdle
    /\ r_mode \in {"with_retry", "make_request"}
    /\ r_cat \in Categories
    /\ r_year \in BOOLEAN
    /\ r_countries \in SUBSET Countries
    /\ r_factor \in (IF r_mode = "with_retry" THEN {BackoffFactor} ELSE BackoffFactors)
    /\ r_pc = "search"
    /\ r_attempt = 1
    /\ r_delay = 1
    /\ r_all429 = TRUE
    /\ r_s1 = NoOutcome
    /\ r_s2 = NoOutcome
    /\ r_det = NoOutcome
    /\ r_result = "none"
    /\ r_loops = 1
    /\ r_total = 1
    /\ r_onlyFail = TRUE

\* The lookup in progress ends with outcome o after att attempts of its
\* loop; the next lookup starts (a new loop under "make_request"), or the
\* entry is decided.
StageEnds(o, att, delay) ==
    LET s1n == IF r_pc = "search" THEN o ELSE r_s1
        s2n == IF r_pc = "search_noyear" THEN o ELSE r_s2
        detn == IF r_pc = "details" THEN o ELSE r_det
        nxt == NextStage(r_mode, r_cat, r_year, r_pc, o)
        newLoop == nxt # "done" /\ r_mode = "make_request"
    IN  /\ r_s1' = s1n
        /\ r_s2' = s2n
        /\ r_det' = detn
        /\ r_pc' = nxt
        /\ r_result' = IF nxt = "done"
                       THEN Decide(r_mode, r_cat, r_year, s1n, s2n, detn, r_countries)
                       ELSE "none"
        /\ r_attempt' = IF newLoop THEN 1 ELSE att
        /\ r_delay' = IF newLoop THEN 1 ELSE delay
        /\ r_all429' = IF newLoop THEN TRUE ELSE r_all429
        /\ r_loops' = IF newLoop THEN r_loops + 1 ELSE r_loops
        /\ r_total' = IF newLoop THEN r_total + 1 ELSE r_total

\* with_retry starts the lookup function again: a new attempt of its loop.
RetryFunction ==
    /\ r_pc' = "search"
    /\ r_s1' = NoOutcome
    /\ r_s2' = NoOutcome
    /\ r_det' = NoOutcome
    /\ r_result' = "none"
    /\ r_attempt' = r_attempt + 1
    /\ r_total' = r_total + 1
    /\ r_delay' = NextDelay(r_delay, r_factor)
    /\ UNCHANGED <<r_all429, r_loops>>

\* _make_request goes round its loop again.
RetryRequest(all429) ==
    /\ r_attempt' = r_attempt + 1
    /\ r_total' = r_total + 1
    /\ r_delay' = NextDelay(r_delay, r_factor)
    /\ r_all429' = all429
    /\ UNCHANGED <<r_pc, r_s1, r_s2, r_det, r_result, r_loops>>

\* The release lookup of _movie_tmdb_lookup is the one request whose status
\* is not read.
ReadsNoStatus(mode, cat, stage) == mode = "with_retry" /\ IsMovieLike(cat) /\ stage = "details"

\* The release lookup of _movie_tmdb_lookup: requests.get(...).json() with
\* no look at the status.
StatusNotRead == ReadsNoStatus(r_mode, r_cat, r_pc)

\* The service answers 200 with a body.
Answer200 ==
    /\ r_pc # "done"
    /\ \E o \in (IF r_pc = "details" THEN DetailsPayloads ELSE SearchPayloads) :
         StageEnds(o, r_attempt, r_delay)
    /\ r_onlyFail' = FALSE
    /\ UNCHANGED <<r_mode, r_cat, r_year, r_countries, r_factor, cvars, lvars, pvars, uvars>>

\* The service answers 429.
Answer429 ==
    /\ r_pc # "done"
    /\ IF StatusNotRead
       THEN StageEnds(Gave("body429"), r_attempt, r_delay)
       ELSE IF ~LastAttempt(r_attempt)
       THEN IF r_mode = "with_retry" THEN RetryFunction ELSE RetryRequest(r_all429)
       ELSE StageEnds(Gave(IF r_all429 THEN "exhausted" ELSE "failed"),
                      r_attempt, NextDelay(r_delay, r_factor))
    /\ UNCHANGED <<r_mode, r_cat, r_year, r_countries, r_factor, r_onlyFail, cvars, lvars, pvars, uvars>>

\* The request fails (requests.RequestException: timeout, connection reset).
AnswerNetworkFailure ==
    /\ r_pc # "done"
    /\ IF r_mode = "make_request" /\ ~LastAttempt(r_attempt)
       THEN RetryRequest(FALSE)
       ELSE StageEnds(Gave("failed"), r_attempt, r_delay)
    /\ UNCHANGED <<r_mode, r_cat, r_year, r_countries, r_factor, r_onlyFail, cvars, lvars, pvars, uvars>>

\* The service answers another status (404, 500).
AnswerOtherStatus ==
    /\ r_pc # "done"
    /\ StageEnds(Gave(IF StatusNotRead THEN "body429" ELSE "failed"), r_attempt, r_delay)
    /\ r_onlyFail' = FALSE
    /\ UNCHANGED <<r_mode, r_cat, r_year, r_countries, r_factor, cvars, lvars, pvars, uvars>>

RNext == Answer200 \/ Answer429 \/ AnswerNetworkFailure \/ AnswerOtherStatus

SpecRetry == RInit /\ [][RNext]_vars

\* Every request is answered or times out (requests.get(..., timeout=10)).
SpecRetryFair == SpecRetry /\ WF_vars(RNext)

(***************************************************************************)
(* SpecCleanup: the inputs of cleanup_strm_tree drawn from a bounded       *)
(* universe of trees and caches.                                           *)
(***************************************************************************)
\* <<"Movies", "Movies">> is the folder of a movie whose title is "Movies".
C_Dirs ==
    {<< >>, <<"Movies">>, <<"Movies", "A">>, <<"Movies", "Movies">>, <<"TV Shows">>,
     <<"TV Shows", "S">>, <<"TV Shows", "S", "Season 01">>, <<"Live TV">>}

C_Files ==
    {<<"Movies", "A", "a.strm">>, <<"Movies", "A", "a.nfo">>,
     <<"Movies", "A", "poster.jpg">>, <<"Movies", "A", "ghost.jpg">>,
     <<"Movies", "a.nfo">>,
     <<"TV Shows", "S", "tvshow.NFO">>,
     <<"TV Shows", "S", "Season 01", "s.strm">>,
     <<"Live TV", "c.strm">>, <<"Live TV", "a.STRM">>}

C_StrmPaths == {f \in C_Files : EndsWithStrm(Name(f))}

C_Keys == {"k1", "k2", "k3"}

\* The caches of the universe: each key absent, or a record with a NULL
\* path, or a record naming one pointer path.
C_Record(p) == [url |-> "u", path |-> p, allowed |-> IF p = NoPath THEN "0" ELSE "1"]

C_Caches ==
    {c \in UNION {[ks -> {C_Record(p) : p \in C_StrmPaths \cup {NoPath}}] :
                     ks \in SUBSET C_Keys} :
        \A k1 \in DOMAIN c : \A k2 \in DOMAIN c :
            (k1 # k2 /\ c[k1].path # NoPath) => c[k1].path # c[k2].path}

CInit ==
    /\ RIdle
    /\ LIdle
    /\ PIdle
    /\ UIdle
    /\ c_pc = "ready"
    /\ \E ds \in SUBSET C_Dirs :
         /\ \A d \in ds : Len(d) > 0 => Parent(d) \in ds
         /\ \E fs \in SUBSET C_Files :
              /\ \A f \in fs : Parent(f) \in ds
              /\ c_tree = [dirs |-> ds, files |-> [f \in fs |-> "u"]]
    /\ c_cache \in C_Caches
    /\ c_pre = c_tree

DoCleanup ==
    /\ c_pc = "ready"
    /\ c_tree' = cleanup_strm_tree(c_tree, c_cache)
    /\ c_pc' = "done"
    /\ UNCHANGED <<c_cache, c_pre, rvars, lvars, pvars, uvars>>

CNext == DoCleanup

SpecCleanup == CInit /\ [][CNext]_vars

(***************************************************************************)
(* Spec: successive runs of main.run_pipeline.  The persisted store (the   *)
(* tables existing_media and strm_cache) and the output tree outlive a     *)
(* run; everything else is local to a run.  A run takes its playlist (what *)
(* parse_m3u returned, REPLAY entries removed) and the local library (what *)
(* build_existing_media_cache found) from its environment.  The excluded   *)
(* report is off (write_non_us_report false), live TV, health monitoring   *)
(* and analytics are off.  The model follows a first run and the run       *)
(* after it.                                                               *)
(***************************************************************************)
MaxPlaylist == 2

\* The entries of the universe.  movie_kw: the title contains a keyword of
\* the "movies" ignore list; parse_m3u has dropped the movies that do, and
\* tests documentaries against the "documentaries" list only.
VODEntry ==
    [e1 |-> [key |-> "m1", url |-> "u1", category |-> "movie", year |-> TRUE,
             movie_kw |-> FALSE, path |-> <<"Movies", "A", "a.strm">>],
     e2 |-> [key |-> "m1", url |-> "U1", category |-> "movie", year |-> TRUE,
             movie_kw |-> FALSE, path |-> <<"Movies", "A", "a.strm">>],
     e3 |-> [key |-> "t1", url |-> "u3", category |-> "tvshow", year |-> FALSE,
             movie_kw |-> FALSE, path |-> <<"TV Shows", "S", "Season 01", "s.strm">>],
     e4 |-> [key |-> "d1", url |-> "u4", category |-> "documentary", year |-> FALSE,
             movie_kw |-> TRUE, path |-> <<"Documentaries", "D", "b.strm">>]]

EntryIds == DOMAIN VODEntry

\* KeyGenerator.generate_key(e)
generate_key(e) == VODEntry[e].key

\* movie_strm_path, tv_strm_path, doc_strm_path: the path below output_dir.
rel_path(e) == VODEntry[e].path

\* The keys the scan of the local library can find, and the scans followed:
\* an empty library, one with the movie, one with the movie and the
\* documentary.
LibraryKeys == {"m1", "d1"}

LibraryScans == {{}, {"m1"}, LibraryKeys}

Playlists == UNION {[1..n -> EntryIds] : n \in 0..MaxPlaylist}

\* str.lower() on the URLs of the universe.
Lower(url) == IF url = "U1" THEN "u1" ELSE url

\* A store left by an earlier version of the program: the column allowed was
\* added by ALTER TABLE and is NULL in the rows that were there.
LegacyCache ==
    [k \in {"m1"} |-> [url |-> "u1", path |-> <<"Movies", "A", "a.strm">>, allowed |-> "None"]]

LegacyTree ==
    [dirs |-> {<< >>, <<"Movies">>, <<"Movies", "A">>},
     files |-> [f \in {<<"Movies", "A", "a.strm">>} |-> "u1"]]

Init ==
    /\ CIdle
    /\ RIdle
    /\ LIdle
    /\ UIdle
    /\ phase = "idle"
    /\ run = "none"
    /\ library = {}
    /\ enable_batch_processing \in BOOLEAN
    /\ existing_media = {}
    /\ \/ strm_cache = << >> /\ output_dir = EmptyTree
       \/ strm_cache = LegacyCache /\ output_dir = LegacyTree
    /\ existing_keys = {}
    /\ entries = {}
    /\ to_check = {}
    /\ reused_allowed = {}
    /\ reused_excluded = {}
    /\ allowed = {}
    /\ excluded = {}
    /\ exhausted = {}
    /\ new_cache = << >>
    /\ outcome = << >>
    /\ h_prev = NoRun
    /\ h_excluded = {}
    /\ h_allowed = {}
    /\ h_store = [existing_media |-> existing_media, strm_cache |-> strm_cache]

PFrame == UNCHANGED <<cvars, rvars, lvars, uvars>>

\* unique_entries[key] = e for e in entries: the last entry of each key.
Deduplicate(pl) ==
    {pl[i] : i \in {j \in DOMAIN pl :
                      \A k \in DOMAIN pl : k > j => generate_key(pl[k]) # generate_key(pl[j])}}

\* cached and cached.get("allowed") is not None
HasRecord(cache, key) == key \in DOMAIN cache

HasDecision(cache, key) == key \in DOMAIN cache /\ cache[key].allowed # "None"

\* The reuse pass: the entries that go to to_check.
CacheMissNoRecord(e, keys, cache) ==
    /\ generate_key(e) \notin keys
    /\ ~HasRecord(cache, generate_key(e))

CacheMiss(e, keys, cache) ==
    /\ generate_key(e) \notin keys
    /\ ~HasDecision(cache, generate_key(e))

ReusedAnyRecord(e, keys, cache) ==
    \/ generate_key(e) \in keys
    \/ HasRecord(cache, generate_key(e))

ReusedAllowed(e, keys, cache) ==
    \/ generate_key(e) \in keys
    \/ HasDecision(cache, generate_key(e)) /\ cache[generate_key(e)].allowed = "1"

InsertIntoExistingMedia(table, scan) == table \cup scan

\* SQLiteCache.replace_existing_media: DELETE FROM existing_media, INSERT of
\* the scanned keys, commit.
replace_existing_media(table, scan) == scan

\* Lines 122-200: the scan and its commit (replace_existing_media), the
\* parse, the deduplication, the load of strm_cache and the reuse pass.
StartRun ==
    /\ phase \in {"idle", "done", "aborted"}
    /\ run # "second"
    /\ run' = IF run = "none" THEN "first" ELSE "second"
    /\ library' \in LibraryScans
    /\ existing_media' = replace_existing_media(existing_media, library')
    /\ existing_keys' = library'
    /\ \E playlist \in Playlists : entries' = Deduplicate(playlist)
    /\ to_check' = {e \in entries' : CacheMiss(e, existing_keys', strm_cache)}
    /\ reused_allowed' = {e \in entries' \ to_check' : ReusedAllowed(e, existing_keys', strm_cache)}
    /\ reused_excluded' = (entries' \ to_check') \ reused_allowed'
    /\ allowed' = {}
    /\ excluded' = {}
    /\ exhausted' = {}
    /\ new_cache' = << >>
    /\ outcome' = [e \in EntryIds |-> "none"]
    /\ h_prev' = IF phase = "idle" THEN NoRun
                 ELSE [done |-> phase = "done", entries |-> entries, library |-> library,
                       outcome |-> outcome]
    /\ h_excluded' = IF phase = "done"
                     THEN h_excluded \cup {generate_key(e) : e \in excluded}
                     ELSE h_excluded
    /\ h_store' = [existing_media |-> existing_media, strm_cache |-> strm_cache]
    /\ phase' = "classify"
    /\ UNCHANGED <<enable_batch_processing, strm_cache, output_dir, h_allowed>>
    /\ PFrame

\* The outcomes a lookup can end with.
StageOutcomes(mode, cat, stage) ==
    (IF stage = "details" THEN DetailsPayloads ELSE SearchPayloads)
    \cup {Gave("failed")}
    \cup (IF ReadsNoStatus(mode, cat, stage) THEN {Gave("body429")} ELSE {Gave("exhausted")})

\* The lookups of one entry: <<first search, search without year, details>>,
\* NoOutcome for a lookup that is not made.
Lookups(mode, cat, year) ==
    {t \in (StageOutcomes(mode, cat, "search")
            \X (StageOutcomes(mode, cat, "search_noyear") \cup {NoOutcome})
            \X (StageOutcomes(mode, cat, "details") \cup {NoOutcome})) :
        LET after1 == NextStage(mode, cat, year, "search", t[1])
            after2 == IF after1 = "search_noyear"
                      THEN NextStage(mode, cat, year, "search_noyear", t[2])
                      ELSE after1
        IN  /\ (t[2] # NoOutcome) <=> (after1 = "search_noyear")
            /\ (t[3] # NoOutcome) <=> (after2 = "details")}

UsedUp(t) == \E i \in 1..3 : t[i].st = "exhausted"

\* What the classification of an entry can come to, for each filter and
\* each kind of entry: <<the decision, whether a lookup used up its attempts>>.
Classifications ==
    [mode \in {"make_request", "with_retry"}, cat \in Categories, year \in BOOLEAN |->
        {<<Decide(mode, cat, year, t[1], t[2], t[3], allowed_countries), UsedUp(t)>> :
            t \in Lookups(mode, cat, year), allowed_countries \in SUBSET Countries}]

Mode == IF enable_batch_processing THEN "make_request" ELSE "with_retry"

\* One task of the classification pool: process_movie_entry,
\* process_tv_entry or split_by_market_filter.process_entry, and the
\* f.result() that takes its result or re-raises what it raised.
ClassifyEntry(e) ==
    /\ phase = "classify"
    /\ e \in to_check \ (allowed \cup excluded)
    /\ \E c \in Classifications[Mode, VODEntry[e].category, VODEntry[e].year] :
         /\ phase' = IF c[1] = "raise" THEN "aborted" ELSE "classify"
         /\ allowed' = IF c[1] = "allowed" THEN allowed \cup {e} ELSE allowed
         /\ excluded' = IF c[1] = "excluded" THEN excluded \cup {e} ELSE excluded
         /\ exhausted' = IF c[2] THEN exhausted \cup {e} ELSE exhausted
         /\ h_allowed' = IF c[1] = "allowed" THEN h_allowed \cup {generate_key(e)} ELSE h_allowed
    /\ UNCHANGED <<run, library, enable_batch_processing,
                   existing_media, strm_cache, output_dir,
                   existing_keys, entries, to_check, reused_allowed,
                   reused_excluded, new_cache, outcome, h_prev, h_excluded, h_store>>
    /\ PFrame

FreshCache(cache) == << >>

\* new_cache = strm_cache.copy(): the records of the store, those of the
\* entries that are no longer in the playlist included.
strm_cache_copy(cache) == cache

\* Lines 233-239: allowed.extend(reused_allowed), excluded.extend(
\* reused_excluded), new_cache = strm_cache.copy().
ExtendWithReused ==
    /\ phase = "classify"
    /\ to_check \subseteq allowed \cup excluded
    /\ allowed' = allowed \cup reused_allowed
    /\ excluded' = excluded \cup reused_excluded
    /\ new_cache' = strm_cache_copy(strm_cache)
    /\ phase' = "write"
    /\ UNCHANGED <<run, library, enable_batch_processing,
                   existing_media, strm_cache, output_dir,
                   existing_keys, entries, to_check, reused_allowed,
                   reused_excluded, exhausted, outcome, h_prev, h_excluded, h_allowed, h_store>>
    /\ PFrame

Prefixes(p) == {SubSeq(p, 1, n) : n \in 0..Len(p)}

Put(f, k, v) == [x \in DOMAIN f \cup {k} |-> IF x = k THEN v ELSE f[x]]

\* write_strm_file(base_dir, relative_path, url); fault is what goes wrong:
\* "mkdir" (target.parent.mkdir raises), "open" (target.open raises) or
\* "none".
write_strm_file(t, path, url, fault) ==
    IF path \in DOMAIN t.files /\ Lower(t.files[path]) = Lower(url)
    THEN [tree |-> t, raised |-> FALSE]
    ELSE IF fault = "mkdir"
    THEN [tree |-> t, raised |-> TRUE]
    ELSE LET made == [t EXCEPT !.dirs = @ \cup Prefixes(Parent(path))]
         IN  IF fault = "open"
             THEN [tree |-> made, raised |-> TRUE]
             ELSE [tree |-> [made EXCEPT !.files = Put(@, path, url)], raised |-> FALSE]

\* process_entry: the ignore test before the try block.
IgnoredByKeyword(e) == VODEntry[e].category # "tvshow" /\ VODEntry[e].movie_kw

\* process_entry: cached.get("url") == url and cached.get("path") and
\* cached_path == abs_path.resolve()
CachedUnchangedNever(cache, e) == FALSE

CachedUnchanged(cache, e) ==
    /\ HasRecord(cache, generate_key(e))
    /\ cache[generate_key(e)].url = VODEntry[e].url
    /\ cache[generate_key(e)].path # NoPath
    /\ cache[generate_key(e)].path = rel_path(e)

\* process_entry: try ... except Exception as ex: logging.error(...).  The
\* phase the run is in after write_strm_file has returned or raised.
PhaseAfterWriteUncaught(raised) == IF raised THEN "aborted" ELSE "write"

PhaseAfterWrite(raised) == "write"

\* One task of the write pool: process_entry(e).
process_entry(e) ==
    /\ phase = "write"
    /\ e \in allowed
    /\ outcome[e] = "none"
    /\ LET key == generate_key(e)
           url == VODEntry[e].url
       IN  IF IgnoredByKeyword(e)
           THEN /\ outcome' = [outcome EXCEPT ![e] = "ignored"]
                /\ UNCHANGED <<new_cache, output_dir, phase>>
           ELSE IF key \in existing_keys
           THEN /\ outcome' = [outcome EXCEPT ![e] = "skipped"]
                /\ new_cache' = Put(new_cache, key, [url |-> url, path |-> NoPath, allowed |-> "1"])
                /\ UNCHANGED <<output_dir, phase>>
           ELSE IF CachedUnchanged(strm_cache, e)
           THEN /\ outcome' = [outcome EXCEPT ![e] = "skipped"]
                /\ new_cache' = Put(new_cache, key, strm_cache[key])
                /\ UNCHANGED <<output_dir, phase>>
           ELSE \E fault \in {"none", "mkdir", "open"} :
                  LET w == write_strm_file(output_dir, rel_path(e), url, fault)
                  IN  /\ output_dir' = w.tree
                      /\ phase' = PhaseAfterWrite(w.raised)
                      /\ IF w.raised
                         THEN /\ outcome' = [outcome EXCEPT ![e] = "error"]
                              /\ UNCHANGED new_cache
                         ELSE /\ outcome' = [outcome EXCEPT ![e] = "written"]
                              /\ new_cache' = Put(new_cache, key,
                                     [url |-> url, path |-> rel_path(e), allowed |-> "1"])
    /\ UNCHANGED <<run, library, enable_batch_processing,
                   existing_media, strm_cache,
                   existing_keys, entries, to_check, reused_allowed,
                   reused_excluded, allowed, excluded, exhausted, h_prev, h_excluded, h_allowed, h_store>>
    /\ PFrame

\* new_cache[key] = {"url": e.url, "path": None, "allowed": 0}
ExcludedRecordUndecided(e) == [url |-> VODEntry[e].url, path |-> NoPath, allowed |-> "None"]

ExcludedRecord(e) == [url |-> VODEntry[e].url, path |-> NoPath, allowed |-> "0"]

RECURSIVE RecordExcluded(_, _)
RecordExcluded(cache, es) ==
    IF es = {} THEN cache
    ELSE LET e == CHOOSE x \in es : TRUE
         IN  RecordExcluded(Put(cache, generate_key(e), ExcludedRecord(e)), es \ {e})

SomeWriteTaskFinished == allowed = {} \/ \E e \in allowed : outcome[e] # "none"

\* with ThreadPoolExecutor(...) as executor: list(executor.map(process_entry,
\* allowed)): the block is left when every task has finished.
WritePoolJoined == \A e \in allowed : outcome[e] # "none"

\* Lines 330-333: the write pool has finished; the excluded entries are
\* recorded and cache.replace_strm_cache(new_cache) commits.
PersistCache ==
    /\ phase = "write"
    /\ WritePoolJoined
    /\ new_cache' = RecordExcluded(new_cache, excluded)
    /\ strm_cache' = new_cache'
    /\ phase' = "cleanup"
    /\ UNCHANGED <<run, library, enable_batch_processing,
                   existing_media, output_dir,
                   existing_keys, entries, to_check, reused_allowed,
                   reused_excluded, allowed, excluded, exhausted, outcome,
                   h_prev, h_excluded, h_allowed, h_store>>
    /\ PFrame

\* Line 335: cleanup_strm_tree(output_dir, new_cache); the run is complete.
OrphanCleanup ==
    /\ phase = "cleanup"
    /\ output_dir' = cleanup_strm_tree(output_dir, new_cache)
    /\ phase' = "done"
    /\ UNCHANGED <<run, library, enable_batch_processing,
                   existing_media, strm_cache,
                   existing_keys, entries, to_check, reused_allowed,
                   reused_excluded, allowed, excluded, exhausted, new_cache,
                   outcome, h_prev, h_excluded, h_allowed, h_store>>
    /\ PFrame

Next ==
    \/ StartRun
    \/ \E e \in EntryIds : ClassifyEntry(e)
    \/ ExtendWithReused
    \/ \E e \in EntryIds : process_entry(e)
    \/ PersistCache
    \/ OrphanCleanup

Spec == Init /\ [][Next]_vars

(***************************************************************************)
(* SpecDedup: the deduplication loop of run_pipeline (lines 173-177) on a  *)
(* parsed playlist, one iteration per step.                                *)
(***************************************************************************)
MaxParsed == 3

ParsedPlaylists == UNION {[1..n -> EntryIds] : n \in 0..MaxParsed}

DInit ==
    /\ d_pc = "loop"
    /\ d_playlist \in ParsedPlaylists
    /\ d_i = 1
    /\ d_unique = << >>
    /\ d_entries = {}
    /\ CIdle
    /\ RIdle
    /\ LIdle
    /\ PIdle
    /\ GIdle
    /\ KIdle
    /\ FIdle
    /\ MIdle
    /\ TIdle
    /\ SIdle
    /\ WIdle
    /\ JIdle

DFrame == UNCHANGED <<cvars, rvars, lvars, pvars, gvars, kvars, fvars, mvars, tvars, svars, wvars, jvars>>

KeepFirstOfKey(dict, key, e) == IF key \in DOMAIN dict THEN dict ELSE Put(dict, key, e)

\* unique_entries[key] = e
SetItem(dict, key, e) == Put(dict, key, e)

\* One iteration of "for e in entries".
DedupIterate ==
    /\ d_pc = "loop"
    /\ d_i <= Len(d_playlist)
    /\ d_unique' = SetItem(d_unique, generate_key(d_playlist[d_i]), d_playlist[d_i])
    /\ d_i' = d_i + 1
    /\ UNCHANGED <<d_pc, d_playlist, d_entries>>
    /\ DFrame

\* entries = list(unique_entries.values())
DedupValues ==
    /\ d_pc = "loop"
    /\ d_i > Len(d_playlist)
    /\ d_entries' = {d_unique[k] : k \in DOMAIN d_unique}
    /\ d_pc' = "done"
    /\ UNCHANGED <<d_playlist, d_i, d_unique>>
    /\ DFrame

DNext == DedupIterate \/ DedupValues

SpecDedup == DInit /\ [][DNext]_vars

(***************************************************************************)
(* SpecParse: what parse_m3u does at the URL line of an entry: the         *)
(* category from the group-title of the #EXTINF line before it, and the    *)
(* ignore-keyword test.  Strings are the ones of the universe below;       *)
(* str.strip().lower() is the table StripLower.                            *)
(***************************************************************************)
GroupTitles == {"docs", "DOCS", " Docs ", "doc", "Doc", "Movies", "series", "None"}

KeywordsAsWritten == {"Docs", "doc ", "movies"}

StripLower(str) ==
    CASE str \in {"docs", "DOCS", " Docs ", "Docs"} -> "docs"
      [] str \in {"doc", "Doc", "doc "} -> "doc"
      [] str \in {"Movies", "movies"} -> "movies"
      [] OTHER -> str

\* cur_group = m.group(1).strip().lower() if the line has a group-title,
\* else None; group_lower = (cur_group or "").strip().lower()
group_lower(group) == IF group = "None" THEN "" ELSE StripLower(StripLower(group))

\* {k.strip().lower() for k in keywords}
Normalised(keywords) == {StripLower(k) : k \in keywords}

CategoryKeywordsFirst(group, kws) ==
    CASE group_lower(group) \in Normalised(kws.movie) -> "movie"
      [] group_lower(group) \in Normalised(kws.tv) -> "tvshow"
      [] group_lower(group) \in Normalised(kws.doc) -> "documentary"
      [] group_lower(group) \in Normalised(kws.replay) -> "replay"
      [] group_lower(group) = "doc" -> "documentary"
      [] group_lower(group) = "docs" -> "tvshow"
      [] OTHER -> "movie"

\* Lines 74-85: cat = Category.MOVIE, then the if/elif chain.
CategoryOfGroup(group, kws) ==
    IF group_lower(group) = "doc" THEN "documentary"
    ELSE IF group_lower(group) = "docs" THEN "tvshow"
    ELSE IF group_lower(group) \in Normalised(kws.movie) THEN "movie"
    ELSE IF group_lower(group) \in Normalised(kws.tv) THEN "tvshow"
    ELSE IF group_lower(group) \in Normalised(kws.replay) THEN "replay"
    ELSE "movie"

\* The titles of the #EXTINF line.
EntryTitles == {"Show S01E02", "Film (1999)", "Film"}

\* re.search(r"[Ss]\d{1,2}\s*[Ee]\d{1,2}", cur_title)
HasEpisodePattern(title) == title = "Show S01E02"

\* re.search(r"\(\d{4}\)\s*$", cur_title) or the same after a dash
EndsWithYear(title) == title = "Film (1999)"

\* Lines 86-97: the title heuristics, under "if cat not in (Category.MOVIE,
\* Category.DOCUMENTARY, Category.TVSHOW, Category.REPLAY)".
TitleHeuristics(cat, title) ==
    IF cat \notin {"movie", "documentary", "tvshow", "replay"}
    THEN IF HasEpisodePattern(title) THEN "tvshow"
         ELSE IF EndsWithYear(title) THEN "movie"
         ELSE cat
    ELSE cat

\* Lines 74-97: the category of the entry.
CategoryOfEntry(group, kws, title) == TitleHeuristics(CategoryOfGroup(group, kws), title)

GInit ==
    /\ g_pc = "url"
    /\ g_group \in GroupTitles
    /\ g_title \in EntryTitles
    /\ g_keywords \in [movie : SUBSET KeywordsAsWritten, tv : SUBSET KeywordsAsWritten,
                        doc : SUBSET KeywordsAsWritten, replay : SUBSET KeywordsAsWritten]
    /\ g_cat = "none"
    /\ g_appended = FALSE
    /\ CIdle
    /\ RIdle
    /\ LIdle
    /\ PIdle
    /\ DIdle
    /\ KIdle
    /\ FIdle
    /\ MIdle
    /\ TIdle
    /\ SIdle
    /\ WIdle
    /\ JIdle

GFrame == UNCHANGED <<cvars, rvars, lvars, pvars, dvars, kvars, fvars, mvars, tvars, svars, wvars, jvars>>

\* Lines 73-131 for a title that no ignore keyword of its category is in:
\* the entry is appended with the category.
AppendEntry ==
    /\ g_pc = "url"
    /\ g_cat' = CategoryOfEntry(g_group, g_keywords, g_title)
    /\ g_appended' = TRUE
    /\ g_pc' = "done"
    /\ UNCHANGED <<g_group, g_title, g_keywords>>
    /\ GFrame

\* Lines 73-119 for a title that holds an ignore keyword of the list of its
\* category: skip, no entry.  A replay entry has no ignore list.
SkipIgnored ==
    /\ g_pc = "url"
    /\ g_cat' = CategoryOfEntry(g_group, g_keywords, g_title)
    /\ g_cat' # "replay"
    /\ g_appended' = FALSE
    /\ g_pc' = "done"
    /\ UNCHANGED <<g_group, g_title, g_keywords>>
    /\ GFrame

GNext == AppendEntry \/ SkipIgnored

SpecParse == GInit /\ [][GNext]_vars

(***************************************************************************)
(* SpecKey: canonical_movie_key of core.py on two titles.  A title is the  *)
(* sequence of its pieces: a word, a four-digit year, a quality tag, or    *)
(* one separator or punctuation character.  The regular expressions of     *)
(* the source are applied to these pieces as they apply to the characters: *)
(* \d{4} matches a year piece, \d+[kK] and [0-9]{3,4}[pP] a quality tag,   *)
(* \s a space, \w a word, year or quality piece.  No piece is a prefix of  *)
(* another, so two keys are equal strings exactly when they are equal      *)
(* sequences of pieces.                                                    *)
(***************************************************************************)
Words == {"The", "the", "THE", "Matrix", "matrix", "MATRIX"}

Years == {"1999"}

QualityTags == {"1080p", "4K"}

Separators == {" ", ".", "_", "-"}

\* str.lower() on a piece.
LowerPiece(c) ==
    CASE c \in {"The", "the", "THE"} -> "the"
      [] c \in {"Matrix", "matrix", "MATRIX"} -> "matrix"
      [] c = "4K" -> "4k"
      [] OTHER -> c

\* \w
IsWordChar(c) == c \in Words \cup Years \cup QualityTags \cup {"the", "matrix", "4k", "_"}

RECURSIVE LStrip(_)
LStrip(xs) == IF xs # << >> /\ Head(xs) = " " THEN LStrip(Tail(xs)) ELSE xs

RECURSIVE RStrip(_)
RStrip(xs) ==
    IF xs # << >> /\ xs[Len(xs)] = " " THEN RStrip(SubSeq(xs, 1, Len(xs) - 1)) ELSE xs

\* str.strip()
Strip(xs) == RStrip(LStrip(xs))

\* re.sub(r"^\s*(\d+[kK]|[0-9]{3,4}[pP]):\s*", "", t)
QualityPrefixRemoved(xs) ==
    LET t == LStrip(xs)
    IN  IF Len(t) >= 2 /\ t[1] \in QualityTags /\ t[2] = ":"
        THEN LStrip(SubSeq(t, 3, Len(t)))
        ELSE xs

\* t.replace("-", " ").replace("_", " ").replace(".", " ")
SeparatorsToSpaces(xs) == [i \in DOMAIN xs |-> IF xs[i] \in {"-", "_", "."} THEN " " ELSE xs[i]]

\* re.sub(r"[^\w\s():]+", " ", t), up to the number of spaces, which the
\* next substitution brings to one.
OthersToSpaces(xs) ==
    [i \in DOMAIN xs |-> IF IsWordChar(xs[i]) \/ xs[i] \in {" ", "(", ")", ":"}
                         THEN xs[i] ELSE " "]

\* re.sub(r"\s+", " ", t)
RECURSIVE CollapseSpaces(_)
CollapseSpaces(xs) ==
    IF Len(xs) < 2 THEN xs
    ELSE IF xs[1] = " " /\ xs[2] = " " THEN CollapseSpaces(Tail(xs))
    ELSE <<xs[1]>> \o CollapseSpaces(Tail(xs))

\* re.sub(r"\s*\(\d{4}\)\s*$", "", t)
TrailingParenYearRemoved(xs) ==
    LET t == RStrip(xs)
        n == Len(t)
    IN  IF n >= 3 /\ t[n] = ")" /\ t[n - 1] \in Years /\ t[n - 2] = "("
        THEN RStrip(SubSeq(t, 1, n - 3))
        ELSE xs

\* re.sub(r"\s+\d{4}\s*$", "", t)
TrailingBareYearRemoved(xs) ==
    LET t == RStrip(xs)
        n == Len(t)
    IN  IF n >= 2 /\ t[n] \in Years /\ t[n - 1] = " "
        THEN RStrip(SubSeq(t, 1, n - 2))
        ELSE xs

\* sanitize_title.  The pieces hold no "&", no "tt" number and no "imdb";
\* a title of TitleStrings has one year at most, so the substitution of a
\* doubled "(year) (year)" finds nothing; r"\s*-\s*\d{4}\s*$" finds
\* nothing in any string, the "-" having been replaced before.
sanitize_title(title) ==
    Strip(TrailingBareYearRemoved(TrailingParenYearRemoved(
        Strip(CollapseSpaces(OthersToSpaces(SeparatorsToSpaces(
            QualityPrefixRemoved(Strip(title)))))))))

\* re.sub(r"[^a-z0-9]+", "", title.lower())
make_cache_key(title) ==
    LET lower == [i \in DOMAIN title |-> LowerPiece(title[i])]
    IN  SelectSeq(lower, LAMBDA c : IsWordChar(c) /\ c # "_")

\* extract_year: re.search(r"\((\d{4})\)", text), then
\* re.search(r"-\s*(\d{4})$", text).
extract_year(text) ==
    LET parens == {i \in 1..(Len(text) - 2) :
                      text[i] = "(" /\ text[i + 1] \in Years /\ text[i + 2] = ")"}
        n == Len(text)
        before == IF n >= 1 THEN RStrip(SubSeq(text, 1, n - 1)) ELSE << >>
    IN  IF parens # {}
        THEN text[(CHOOSE i \in parens : \A j \in parens : i <= j) + 1]
        ELSE IF n >= 2 /\ text[n] \in Years /\ before # << >> /\ before[Len(before)] = "-"
        THEN text[n]
        ELSE "None"

canonical_movie_key(title_with_year) ==
    LET t == sanitize_title(title_with_year)
        year == extract_year(title_with_year)
    IN  make_cache_key(IF year # "None" THEN t \o <<" ", year>> ELSE t)

\* The titles of one film: its two words in one of three letter cases,
\* joined by a separator, with or without punctuation after them, the year
\* in parentheses, bare or after a dash, and no quality tag, one in front
\* or one behind.
TitleString(case, sep, punct, year, quality) ==
    LET w == CASE case = "title" -> <<"The", "Matrix">>
               [] case = "lower" -> <<"the", "matrix">>
               [] OTHER -> <<"THE", "MATRIX">>
        y == CASE year = "paren" -> <<sep, "(", "1999", ")">>
               [] year = "bare" -> <<sep, "1999">>
               [] OTHER -> <<" ", "-", " ", "1999">>
    IN  (IF quality = "prefix" THEN <<"1080p", ":", " ">> ELSE << >>)
        \o <<w[1], sep, w[2]>>
        \o (IF punct THEN <<"!">> ELSE << >>)
        \o y
        \o (IF quality = "suffix" THEN <<sep, "1080p">> ELSE << >>)

TitleStrings ==
    {TitleString(case, sep, punct, year, quality) :
        case \in {"title", "lower", "upper"}, sep \in Separators, punct \in BOOLEAN,
        year \in {"paren", "bare", "dash"}, quality \in {"none", "prefix", "suffix"}}

TheMatrix1999 == TitleString("title", " ", FALSE, "paren", "none")

theMatrix1999Dotted == TitleString("lower", ".", FALSE, "bare", "suffix")

KInit ==
    /\ k_pc = "titles"
    /\ k_titles \in [a : TitleStrings, b : TitleStrings]
    /\ k_keys = [a |-> << >>, b |-> << >>]
    /\ CIdle
    /\ RIdle
    /\ LIdle
    /\ PIdle
    /\ DIdle
    /\ GIdle
    /\ FIdle
    /\ MIdle
    /\ TIdle
    /\ SIdle
    /\ WIdle
    /\ JIdle

KFrame == UNCHANGED <<cvars, rvars, lvars, pvars, dvars, gvars, fvars, mvars, tvars, svars, wvars, jvars>>

ComputeKeys ==
    /\ k_pc = "titles"
    /\ k_keys' = [a |-> canonical_movie_key(k_titles.a), b |-> canonical_movie_key(k_titles.b)]
    /\ k_pc' = "done"
    /\ UNCHANGED k_titles
    /\ KFrame

KNext == ComputeKeys

SpecKey == KInit /\ [][KNext]_vars

(***************************************************************************)
(* SpecPreFilter: ContentPreFilter.should_skip_tmdb on one title.  A title *)
(* is the sequence of its pieces: a word, a year, a quality tag, a year in *)
(* parentheses, a hyphen or a space; word pieces that follow one another   *)
(* without a space are one word.  Of the patterns and indicators of the    *)
(* source, the ones that can be found in a title of these pieces are       *)
(* modelled: the alternatives "korean" and "k-drama" of the pattern        *)
(* korean_content, and the indicators "san", "korean" and "k-drama".       *)
(***************************************************************************)
MaxTitlePieces == 4

TitlePieces ==
    {"Korean", "K", "Drama", "Matrix", "Santana", "1080p", "2012", "(2012)", "-", " "}

PreFilterTitles == UNION {[1..n -> TitlePieces] : n \in 0..MaxTitlePieces}

\* str.lower() on a piece; re.IGNORECASE.
LowerTitlePiece(c) ==
    CASE c = "Korean" -> "korean"
      [] c = "K" -> "k"
      [] c = "Drama" -> "drama"
      [] c = "Matrix" -> "matrix"
      [] c = "Santana" -> "santana"
      [] OTHER -> c

LowerTitle(xs) == [i \in DOMAIN xs |-> LowerTitlePiece(xs[i])]

\* \w
IsWordPiece(c) == c \notin {"(2012)", "-", " "}

\* re.sub(r"\(\d{4}\)", "", title)
ParenYearsRemoved(xs) == SelectSeq(xs, LAMBDA c : c # "(2012)")

\* re.sub(r"\s*-\s*\d{4}$", "", title)
DashYearRemoved(xs) ==
    LET n == Len(xs)
        before == IF n >= 1 THEN RStrip(SubSeq(xs, 1, n - 1)) ELSE << >>
    IN  IF n >= 2 /\ xs[n] = "2012" /\ before # << >> /\ before[Len(before)] = "-"
        THEN RStrip(SubSeq(before, 1, Len(before) - 1))
        ELSE xs

\* re.sub(r"[^\w\s\u0080-\uFFFF]", "", title)
SpecialCharsRemoved(xs) == SelectSeq(xs, LAMBDA c : IsWordPiece(c) \/ c = " ")

\* _normalize_title.  No title of PreFilterTitles holds "(1080p)", the text
\* that r"\s*\(\d{3,4}p\)" removes.
normalize_title(title) ==
    LowerTitle(Strip(CollapseSpaces(SpecialCharsRemoved(DashYearRemoved(
        ParenYearsRemoved(title))))))

\* The alternatives of korean_content, r"\b(?:korean|k-drama|...)\b".
KoreanContent == {<<"korean">>, <<"k", "-", "drama">>}

\* pattern['regex'].search(text) for a pattern \b(?:...)\b, compiled with
\* re.IGNORECASE.
Searches(alternatives, text) ==
    \E alt \in alternatives :
        \E i \in 1..Len(text) :
            /\ i + Len(alt) - 1 <= Len(text)
            /\ \A j \in 1..Len(alt) : LowerTitlePiece(text[i + j - 1]) = alt[j]
            /\ i = 1 \/ ~IsWordPiece(text[i - 1])
            /\ i + Len(alt) - 1 = Len(text) \/ ~IsWordPiece(text[i + Len(alt)])

\* for pattern in self.non_us_patterns: pattern['regex'].search(...)
MatchesNonUsPattern(text) == Searches(KoreanContent, text)

\* indicator in title_lower, for the indicators "san", "korean", "k-drama".
ContainsLanguageIndicator(title_lower) ==
    \/ \E i \in DOMAIN title_lower : title_lower[i] \in {"santana", "korean"}
    \/ \E i \in 1..(Len(title_lower) - 2) :
           /\ title_lower[i] = "k"
           /\ title_lower[i + 1] = "-"
           /\ title_lower[i + 2] = "drama"

FInit ==
    /\ f_pc = "title"
    /\ f_title \in PreFilterTitles
    /\ f_skip = FALSE
    /\ f_reason = "none"
    /\ CIdle
    /\ RIdle
    /\ LIdle
    /\ PIdle
    /\ DIdle
    /\ GIdle
    /\ KIdle
    /\ MIdle
    /\ TIdle
    /\ SIdle
    /\ WIdle
    /\ JIdle

FFrame == UNCHANGED <<cvars, rvars, lvars, pvars, dvars, gvars, kvars, mvars, tvars, svars, wvars, jvars>>

should_skip_tmdb ==
    /\ f_pc = "title"
    /\ LET normalized_title == normalize_title(f_title)
       IN  f_reason' = IF MatchesNonUsPattern(normalized_title) THEN "pattern"
                       ELSE IF ContainsLanguageIndicator(LowerTitle(normalized_title))
                       THEN "language"
                       ELSE "tmdb"
    /\ f_skip' = (f_reason' # "tmdb")
    /\ f_pc' = "done"
    /\ UNCHANGED f_title
    /\ FFrame

FNext == should_skip_tmdb

SpecPreFilter == FInit /\ [][FNext]_vars

(***************************************************************************)
(* SpecLines: the line loop of parse_m3u (lines 55-132).  A line is an     *)
(* #EXTINF line with its title and group-title, a line that starts with    *)
(* "http://" or "https://", or any other line (blank lines among them).    *)
(* The title "X" holds an ignore keyword of the list of its category; the  *)
(* category itself is the matter of SpecParse.                             *)
(***************************************************************************)
MaxLines == 4

ExtinfLine(title, group) == [kind |-> "extinf", title |-> title, group |-> group, url |-> "None"]

UrlLine(url) == [kind |-> "url", title |-> "None", group |-> "None", url |-> url]

OtherLine == [kind |-> "other", title |-> "None", group |-> "None", url |-> "None"]

M3uLines ==
    {ExtinfLine("A", "g"), ExtinfLine("B", "None"), ExtinfLine("", "g"), ExtinfLine("X", "g"),
     UrlLine("http://u1"), UrlLine("http://u2"), OtherLine}

M3uFiles == UNION {[1..n -> M3uLines] : n \in 0..MaxLines}

\* The ignore-keyword test of lines 98-119.
HoldsIgnoreKeyword(title) == title = "X"

MInit ==
    /\ m_pc = "loop"
    /\ m_lines \in M3uFiles
    /\ m_i = 1
    /\ m_cur = NoBuffer
    /\ m_entries = << >>
    /\ CIdle
    /\ RIdle
    /\ LIdle
    /\ PIdle
    /\ DIdle
    /\ GIdle
    /\ KIdle
    /\ FIdle
    /\ TIdle
    /\ SIdle
    /\ WIdle
    /\ JIdle

MFrame == UNCHANGED <<cvars, rvars, lvars, pvars, dvars, gvars, kvars, fvars, tvars, svars, wvars, jvars>>

\* if line.startswith("#EXTINF:"): cur_title and cur_group are set from the
\* line.
ReadExtinf ==
    /\ m_pc = "loop"
    /\ m_i <= Len(m_lines)
    /\ m_lines[m_i].kind = "extinf"
    /\ m_cur' = [title |-> m_lines[m_i].title, group |-> m_lines[m_i].group]
    /\ m_i' = m_i + 1
    /\ UNCHANGED <<m_pc, m_lines, m_entries>>
    /\ MFrame

\* "cur_title and ...": None and the empty string are both false.
Buffered(cur) == cur.title \notin {"None", ""}

BufferKept(cur) == cur

\* cur_title, cur_group = None, None after the append and after a skip.
BufferAfterUrl(cur) == NoBuffer

\* elif cur_title and line.startswith(("http://", "https://")): the entry
\* is appended, or skipped when its title holds an ignore keyword.
ReadUrlBuffered ==
    /\ m_pc = "loop"
    /\ m_i <= Len(m_lines)
    /\ m_lines[m_i].kind = "url"
    /\ Buffered(m_cur)
    /\ m_entries' = IF HoldsIgnoreKeyword(m_cur.title) THEN m_entries
                     ELSE Append(m_entries, [raw_title |-> m_cur.title, group |-> m_cur.group,
                                             url |-> m_lines[m_i].url])
    /\ m_cur' = BufferAfterUrl(m_cur)
    /\ m_i' = m_i + 1
    /\ UNCHANGED <<m_pc, m_lines>>
    /\ MFrame

\* A blank line, a line that is neither, or a URL line with no title
\* buffered: nothing changes.
ReadOther ==
    /\ m_pc = "loop"
    /\ m_i <= Len(m_lines)
    /\ \/ m_lines[m_i].kind = "other"
       \/ m_lines[m_i].kind = "url" /\ ~Buffered(m_cur)
    /\ m_i' = m_i + 1
    /\ UNCHANGED <<m_pc, m_lines, m_cur, m_entries>>
    /\ MFrame

\* The file is exhausted: return entries.
ReturnEntries ==
    /\ m_pc = "loop"
    /\ m_i > Len(m_lines)
    /\ m_pc' = "done"
    /\ UNCHANGED <<m_lines, m_i, m_cur, m_entries>>
    /\ MFrame

MNext == ReadExtinf \/ ReadUrlBuffered \/ ReadOther \/ ReturnEntries

SpecLines == MInit /\ [][MNext]_vars

(***************************************************************************)
(* SpecLookup: the lookups of successive movie entries that share one      *)
(* cleaned title, over the lookup cache of the store.  Both algorithms     *)
(* are followed: _movie_tmdb_lookup and check_movie over                   *)
(* EnhancedTMDbClient.                                                     *)
(***************************************************************************)

\* What a search request can give: a body with results, a body with an
\* empty result list, or nothing (network error, bad status).
SearchAnswers == {"results", "empty", "failed"}

\* What a release-dates request can give.
DetailsAnswers == {"data", "failed"}

AnswersOf(key) == IF key = "details" THEN DetailsAnswers ELSE SearchAnswers

\* The lookup store of the decision cache: the raw result held for the key
\* within its time-to-live, "absent" (None) otherwise.
get_tmdb_cache(store, key) == store[key]

\* The raw result is stored under the key.
set_tmdb_cache(store, key, data) == [store EXCEPT ![key] = data]

\* "if cached:" holds for a stored body, one with an empty result list
\* included.
IsCached(cached) == cached # "absent"

\* A lookup that checks the cache first: on a hit the cached body is the
\* data and no request is made; on a miss the request is made and its body
\* is stored when there is one.
CachedLookup(store, key, ans) ==
    LET cached == get_tmdb_cache(store, key) IN
    IF IsCached(cached)
    THEN [last |-> [key |-> key, cached |-> TRUE, http |-> FALSE, ok |-> FALSE],
          store |-> store, data |-> cached]
    ELSE [last |-> [key |-> key, cached |-> FALSE, http |-> TRUE, ok |-> ans # "failed"],
          store |-> IF ans # "failed" THEN set_tmdb_cache(store, key, ans) ELSE store,
          data |-> ans]

\* The search without year of _movie_tmdb_lookup: requests.get is called
\* without a look at the cache, and the body is stored under the key
\* without year.
UncachedRequest(store, key, ans) ==
    [last |-> [key |-> key, cached |-> IsCached(get_tmdb_cache(store, key)),
               http |-> TRUE, ok |-> ans # "failed"],
     store |-> IF ans # "failed" THEN set_tmdb_cache(store, key, ans) ELSE store,
     data |-> ans]

TInit ==
    /\ t_pc = "idle"
    /\ t_path = "None"
    /\ t_year = FALSE
    /\ t_store = [k \in LookupKeys |-> "absent"]
    /\ t_hit = FALSE
    /\ t_last = NoLookup
    /\ t_result = "none"
    /\ CIdle
    /\ RIdle
    /\ LIdle
    /\ PIdle
    /\ DIdle
    /\ GIdle
    /\ KIdle
    /\ FIdle
    /\ MIdle
    /\ SIdle
    /\ WIdle
    /\ JIdle

TFrame == UNCHANGED <<cvars, rvars, lvars, pvars, dvars, gvars, kvars, fvars, mvars, svars, wvars, jvars>>

\* The next entry of the title is classified, with or without a year in
\* its raw title, by one of the two algorithms.
StartEntry ==
    /\ t_pc = "idle"
    /\ t_pc' = "search"
    /\ t_path' \in {"sequential", "client"}
    /\ t_year' \in BOOLEAN
    /\ t_hit' = FALSE
    /\ t_last' = NoLookup
    /\ t_result' = "none"
    /\ UNCHANGED t_store
    /\ TFrame

\* The time-to-live of a stored result elapses between two entries.
TtlElapsed ==
    /\ t_pc = "idle"
    /\ \E key \in LookupKeys :
          /\ IsCached(t_store[key])
          /\ t_store' = [t_store EXCEPT ![key] = "absent"]
    /\ t_last' = NoLookup
    /\ UNCHANGED <<t_pc, t_path, t_year, t_hit, t_result>>
    /\ TFrame

\* The first search, with the year when there is one.  A failed request
\* ends _movie_tmdb_lookup with False; check_movie goes on to the search
\* without year when there is a year.
SearchFirst ==
    /\ t_pc = "search"
    /\ LET key == IF t_year THEN "search_year" ELSE "search_none" IN
       \E ans \in AnswersOf(key) :
          LET l == CachedLookup(t_store, key, ans) IN
          /\ t_last' = l.last
          /\ t_store' = l.store
          /\ t_hit' = l.last.cached
          /\ IF l.data = "results"
             THEN t_pc' = "details" /\ t_result' = "none"
             ELSE IF t_year /\ (l.data = "empty" \/ t_path = "client")
                  THEN t_pc' = "retry" /\ t_result' = "none"
                  ELSE t_pc' = "idle" /\ t_result' = "excluded"
    /\ UNCHANGED <<t_path, t_year>>
    /\ TFrame

\* The search without year.  _movie_tmdb_lookup binds base_url in the
\* branches that make the first request only: after a cache hit the name
\* is unbound, the UnboundLocalError is caught by "except Exception" and
\* the entry is excluded without a request.
SearchRetry ==
    /\ t_pc = "retry"
    /\ \/ /\ t_path = "sequential"
          /\ t_hit
          /\ t_last' = NoLookup
          /\ t_pc' = "idle"
          /\ t_result' = "excluded"
          /\ UNCHANGED t_store
       \/ /\ ~(t_path = "sequential" /\ t_hit)
          /\ \E ans \in AnswersOf("search_none") :
                LET l == IF t_path = "sequential"
                         THEN UncachedRequest(t_store, "search_none", ans)
                         ELSE CachedLookup(t_store, "search_none", ans) IN
                /\ t_last' = l.last
                /\ t_store' = l.store
                /\ IF l.data = "results"
                   THEN t_pc' = "details" /\ t_result' = "none"
                   ELSE t_pc' = "idle" /\ t_result' = "excluded"
    /\ UNCHANGED <<t_path, t_year, t_hit>>
    /\ TFrame

\* The release dates of the first result.
ReleaseLookup ==
    /\ t_pc = "details"
    /\ \E ans \in AnswersOf("details") :
          LET l == CachedLookup(t_store, "details", ans) IN
          /\ t_last' = l.last
          /\ t_store' = l.store
          /\ t_result' = IF l.data = "failed" THEN "excluded" ELSE "decided"
    /\ t_pc' = "idle"
    /\ UNCHANGED <<t_path, t_year, t_hit>>
    /\ TFrame

TNext == StartEntry \/ TtlElapsed \/ SearchFirst \/ SearchRetry \/ ReleaseLookup

SpecLookup == TInit /\ [][TNext]_vars

(***************************************************************************)
(* SpecSelect: the choice of the TV search result (check_tv and            *)
(* _tv_has_allowed_network, the same statements) on a non-empty result     *)
(* list, a year and an allow-list drawn from a bounded universe.           *)
(***************************************************************************)
MaxResults == 3

\* r.get("popularity", 0): 0 stands for a result without popularity too.
Popularities == {0, 1, 2}

FirstAirDates == {"1999-05-01", "2005-01-09"}

\* extract_year(e.raw_title): None or the four digits.
EntryYears == {"None", "1999"}

\* r.get("first_air_date", "").startswith(str(year))
StartsWith(date, year) ==
    \/ year = "1999" /\ date = "1999-05-01"
    \/ year = "2005" /\ date = "2005-01-09"

TvResults ==
    [popularity : Popularities, origin_country : {{"US"}, {"FR"}},
     first_air_date : FirstAirDates]

TvResultLists == UNION {[1..n -> TvResults] : n \in 1..MaxResults}

\* if year: filtered = [...]; if filtered: results = filtered.  The
\* results are named by their index in data["results"].
YearNarrowed(results, year) ==
    LET filtered == {i \in DOMAIN results : StartsWith(results[i].first_air_date, year)} IN
    IF year # "None" /\ filtered # {} THEN filtered ELSE DOMAIN results

AllPreferred(results, candidates, allowed_countries) == candidates

\* preferred = [r for r in results if any(c in allowed_countries for c in
\* r.get("origin_country", []))]
Preferred(results, candidates, allowed_countries) ==
    {i \in candidates : results[i].origin_country \cap allowed_countries # {}}

\* max(pool, key=lambda r: r.get("popularity", 0)): the first of the
\* results with the greatest popularity.
MaxByPopularity(results, pool) ==
    CHOOSE i \in pool :
        /\ \A j \in pool : results[j].popularity <= results[i].popularity
        /\ \A j \in pool : results[j].popularity = results[i].popularity => i <= j

\* best, as an index of data["results"].
BestResult(results, year, allowed_countries) ==
    LET candidates == YearNarrowed(results, year)
        preferred == Preferred(results, candidates, allowed_countries)
    IN  IF preferred # {} THEN MaxByPopularity(results, preferred)
        ELSE MaxByPopularity(results, candidates)

SInit ==
    /\ s_pc = "results"
    /\ s_results \in TvResultLists
    /\ s_year \in EntryYears
    /\ s_allowed \in {{}, {"US"}}
    /\ s_best = 0
    /\ CIdle
    /\ RIdle
    /\ LIdle
    /\ PIdle
    /\ DIdle
    /\ GIdle
    /\ KIdle
    /\ FIdle
    /\ MIdle
    /\ TIdle
    /\ WIdle
    /\ JIdle

\* The statements between the search and best.get("id").
SelectBest ==
    /\ s_pc = "results"
    /\ s_best' = BestResult(s_results, s_year, s_allowed)
    /\ s_pc' = "done"
    /\ UNCHANGED <<s_results, s_year, s_allowed>>
    /\ UNCHANGED <<cvars, rvars, lvars, pvars, dvars, gvars, kvars, fvars, mvars, tvars, wvars, jvars>>

SNext == SelectBest

SpecSelect == SInit /\ [][SNext]_vars

(***************************************************************************)
(* SpecCounters: the write pool of run_pipeline (main.py:328-329) and the  *)
(* two counters that process_entry, run by the pool's worker threads,      *)
(* adds to (nonlocal written_count, skipped_count; no lock).               *)
(***************************************************************************)
MaxAllowed == 3

\* The ways process_entry can go for one entry: "returned" (ignored by
\* keyword, unknown category, no key), "existing" (key in existing_keys),
\* "unchanged" (the cached record is current), "written" and "error" (the
\* except branch).
EntryPaths == {"returned", "existing", "unchanged", "written", "error"}

\* The counter a path adds to.
CounterOf(path) ==
    IF path = "written" THEN "written"
    ELSE IF path \in {"existing", "unchanged"} THEN "skipped"
    ELSE "none"

WInit ==
    /\ w_phase = "pool"
    /\ w_left \in 0..MaxAllowed
    /\ w_pc = [t \in PoolWorkers |-> "idle"]
    /\ w_ctr = [t \in PoolWorkers |-> "none"]
    /\ w_reg = [t \in PoolWorkers |-> 0]
    /\ w_counted = 0
    /\ written_count = 0
    /\ skipped_count = 0
    /\ CIdle
    /\ RIdle
    /\ LIdle
    /\ PIdle
    /\ DIdle
    /\ GIdle
    /\ KIdle
    /\ FIdle
    /\ MIdle
    /\ TIdle
    /\ SIdle
    /\ JIdle

WFrame == UNCHANGED <<cvars, rvars, lvars, pvars, dvars, gvars, kvars, fvars, mvars, tvars, svars, jvars>>

\* A worker takes the next entry of executor.map(process_entry, allowed) and
\* runs process_entry up to its increment, or to its return when the path
\* has none.
TakeEntry(t) ==
    /\ w_phase = "pool"
    /\ w_left > 0
    /\ w_pc[t] = "idle"
    /\ w_left' = w_left - 1
    /\ \E path \in EntryPaths :
         IF CounterOf(path) = "none"
         THEN UNCHANGED <<w_pc, w_ctr, w_counted>>
         ELSE /\ w_pc' = [w_pc EXCEPT ![t] = "load"]
              /\ w_ctr' = [w_ctr EXCEPT ![t] = CounterOf(path)]
              /\ w_counted' = w_counted + 1
    /\ UNCHANGED <<w_phase, w_reg, written_count, skipped_count>>
    /\ WFrame

\* written_count += 1, skipped_count += 1: the load of the cell.
LoadCount(t) ==
    /\ w_pc[t] = "load"
    /\ w_reg' = [w_reg EXCEPT ![t] = IF w_ctr[t] = "written" THEN written_count
                                     ELSE skipped_count]
    /\ w_pc' = [w_pc EXCEPT ![t] = "store"]
    /\ UNCHANGED <<w_phase, w_left, w_ctr, w_counted, written_count, skipped_count>>
    /\ WFrame

\* The addition and the store into the cell; process_entry returns.
StoreCount(t) ==
    /\ w_pc[t] = "store"
    /\ written_count' = IF w_ctr[t] = "written" THEN w_reg[t] + 1 ELSE written_count
    /\ skipped_count' = IF w_ctr[t] = "skipped" THEN w_reg[t] + 1 ELSE skipped_count
    /\ w_pc' = [w_pc EXCEPT ![t] = "idle"]
    /\ w_ctr' = [w_ctr EXCEPT ![t] = "none"]
    /\ w_reg' = [w_reg EXCEPT ![t] = 0]
    /\ UNCHANGED <<w_phase, w_left, w_counted>>
    /\ WFrame

\* The with block of the executor ends: every task has returned.
PoolJoined ==
    /\ w_phase = "pool"
    /\ w_left = 0
    /\ \A t \in PoolWorkers : w_pc[t] = "idle"
    /\ w_phase' = "joined"
    /\ UNCHANGED <<w_left, w_pc, w_ctr, w_reg, w_counted, written_count, skipped_count>>
    /\ WFrame

WNext ==
    \/ \E t \in PoolWorkers : TakeEntry(t)
    \/ \E t \in PoolWorkers : LoadCount(t)
    \/ \E t \in PoolWorkers : StoreCount(t)
    \/ PoolJoined

SpecCounters == WInit /\ [][WNext]_vars

(***************************************************************************)
(* SpecWebJob: successive jobs of the web dashboard,                       *)
(* JobManager._run_pipeline_logic (web_main.py:192-407), over the          *)
(* persisted decision cache and the output tree.  The job's own copy of    *)
(* the reuse pass, of process_entry and of the final steps is followed;    *)
(* the filter is split_by_market_filter.                                   *)
(***************************************************************************)
JInit ==
    /\ j_phase = "idle"
    /\ j_job = "none"
    /\ j_dry = FALSE
    /\ \/ j_store = << >> /\ j_tree = EmptyTree
       \/ j_store = LegacyCache /\ j_tree = LegacyTree
    /\ j_keys = {}
    /\ j_entries = {}
    /\ j_to_check = {}
    /\ j_reused = {}
    /\ j_allowed = {}
    /\ j_excluded = {}
    /\ j_new_cache = << >>
    /\ j_processed = {}
    /\ h_job = NoJob
    /\ CIdle
    /\ RIdle
    /\ LIdle
    /\ PIdle
    /\ DIdle
    /\ GIdle
    /\ KIdle
    /\ FIdle
    /\ MIdle
    /\ TIdle
    /\ SIdle
    /\ WIdle

JFrame == UNCHANGED <<cvars, rvars, lvars, pvars, dvars, gvars, kvars, fvars, mvars, tvars, svars, wvars>>

\* The keys of the entries that the job sent to the filter and got a
\* decision for.
DecidedKeys == {generate_key(e) : e \in j_to_check \cap (j_allowed \cup j_excluded)}

\* Lines 192-266: the scan, the parse, the deduplication, the load of
\* strm_cache and the reuse pass of a job started with dry_run or without.
StartJob ==
    /\ j_phase \in {"idle", "done", "failed"}
    /\ j_job # "second"
    /\ j_job' = IF j_job = "none" THEN "first" ELSE "second"
    /\ j_dry' \in BOOLEAN
    /\ j_keys' \in LibraryScans
    /\ \E playlist \in Playlists : j_entries' = Deduplicate(playlist)
    /\ j_to_check' = {e \in j_entries' : CacheMiss(e, j_keys', j_store)}
    /\ j_reused' = {e \in j_entries' \ j_to_check' : ReusedAllowed(e, j_keys', j_store)}
    /\ j_allowed' = {}
    /\ j_excluded' = {}
    /\ j_new_cache' = << >>
    /\ j_processed' = {}
    /\ h_job' = IF j_phase = "idle" THEN NoJob
                ELSE [done |-> j_phase = "done", dry |-> j_dry, entries |-> j_entries,
                      keys |-> j_keys, decided |-> DecidedKeys]
    /\ j_phase' = "classify"
    /\ UNCHANGED <<j_store, j_tree>>
    /\ JFrame

\* Lines 271-278: one task of split_by_market_filter and the f.result()
\* that takes its result or re-raises what it raised (the job fails).
JobClassify(e) ==
    /\ j_phase = "classify"
    /\ e \in j_to_check \ (j_allowed \cup j_excluded)
    /\ \E c \in Classifications["with_retry", VODEntry[e].category, VODEntry[e].year] :
         /\ j_phase' = IF c[1] = "raise" THEN "failed" ELSE "classify"
         /\ j_allowed' = IF c[1] = "allowed" THEN j_allowed \cup {e} ELSE j_allowed
         /\ j_excluded' = IF c[1] = "excluded" THEN j_excluded \cup {e} ELSE j_excluded
    /\ UNCHANGED <<j_job, j_dry, j_store, j_tree, j_keys, j_entries, j_to_check,
                   j_reused, j_new_cache, j_processed, h_job>>
    /\ JFrame

\* Lines 280-293: allowed.extend(reused_allowed), excluded.extend(
\* reused_excluded), strm_cache = cache.strm_cache_dict(), new_cache =
\* strm_cache.copy().
JobExtend ==
    /\ j_phase = "classify"
    /\ j_to_check \subseteq j_allowed \cup j_excluded
    /\ j_allowed' = j_allowed \cup j_reused
    /\ j_excluded' = j_excluded \cup ((j_entries \ j_to_check) \ j_reused)
    /\ j_new_cache' = strm_cache_copy(j_store)
    /\ j_phase' = "write"
    /\ UNCHANGED <<j_job, j_dry, j_store, j_tree, j_keys, j_entries, j_to_check,
                   j_reused, j_processed, h_job>>
    /\ JFrame

\* Lines 301-371: one task of the job's write pool, process_entry(e).
JobProcessEntry(e) ==
    /\ j_phase = "write"
    /\ e \in j_allowed \ j_processed
    /\ j_processed' = j_processed \cup {e}
    /\ LET key == generate_key(e)
           url == VODEntry[e].url
       IN  IF key \in j_keys
           THEN /\ j_new_cache' = Put(j_new_cache, key, [url |-> url, path |-> NoPath, allowed |-> "1"])
                /\ UNCHANGED j_tree
           ELSE IF CachedUnchanged(j_store, e)
           THEN /\ j_new_cache' = Put(j_new_cache, key, j_store[key])
                /\ UNCHANGED j_tree
           ELSE IF j_dry
           THEN UNCHANGED <<j_new_cache, j_tree>>
           ELSE \E fault \in {"none", "mkdir", "open"} :
                  LET w == write_strm_file(j_tree, rel_path(e), url, fault)
                  IN  /\ j_tree' = w.tree
                      /\ j_new_cache' = IF w.raised THEN j_new_cache
                                        ELSE Put(j_new_cache, key,
                                                 [url |-> url, path |-> rel_path(e), allowed |-> "1"])
    /\ UNCHANGED <<j_phase, j_job, j_dry, j_store, j_keys, j_entries, j_to_check,
                   j_reused, j_allowed, j_excluded, h_job>>
    /\ JFrame

\* Lines 373-407: the write pool has finished; the excluded entries are
\* recorded in new_cache, cleanup_strm_tree(cfg.output_dir, new_cache) runs
\* unless dry_run, and the job completes.  The store is not written.
JobFinish ==
    /\ j_phase = "write"
    /\ j_allowed \subseteq j_processed
    /\ j_new_cache' = RecordExcluded(j_new_cache, j_excluded)
    /\ j_tree' = IF j_dry THEN j_tree ELSE cleanup_strm_tree(j_tree, j_new_cache')
    /\ j_phase' = "done"
    /\ UNCHANGED <<j_job, j_dry, j_store, j_keys, j_entries, j_to_check,
                   j_reused, j_allowed, j_excluded, j_processed, h_job>>
    /\ JFrame

JNext ==
    \/ StartJob
    \/ \E e \in EntryIds : JobClassify(e)
    \/ JobExtend
    \/ \E e \in EntryIds : JobProcessEntry(e)
    \/ JobFinish

SpecWebJob == JInit /\ [][JNext]_vars

(***************************************************************************)
(* Claims about run_pipeline, checked under Spec.                          *)
(***************************************************************************)
\* The second run is complete and had the playlist and the library of the
\* first, which was complete too.
C1_RunRepeated ==
    /\ run = "second"
    /\ phase = "done"
    /\ h_prev.done
    /\ h_prev.entries = entries
    /\ h_prev.library = library

C1_PointerFilesOf(k) ==
    {f \in DOMAIN output_dir.files :
        /\ EndsWithStrm(Name(f))
        /\ \E e \in EntryIds : generate_key(e) = k /\ rel_path(e) = f}

\* C1 as claimed: when run_pipeline runs twice over the same playlist, tree
\* and store, every entry the first run allowed is counted as written by
\* the first run and as skipped by the second, and one pointer file exists
\* for its key afterwards.
C1_EveryAllowedWrittenThenSkipped ==
    C1_RunRepeated =>
        \A e \in EntryIds :
            h_prev.outcome[e] # "none" =>
                /\ h_prev.outcome[e] = "written"
                /\ outcome[e] = "skipped"
                /\ Cardinality(C1_PointerFilesOf(generate_key(e))) = 1

\* C1 as amended: when run_pipeline runs twice over the same playlist, tree
\* and store, every entry the first run counted as written is counted as
\* skipped by the second run, and exactly one pointer file exists for its
\* key afterwards.
C1_WrittenThenSkipped ==
    C1_RunRepeated =>
        \A e \in EntryIds :
            h_prev.outcome[e] = "written" =>
                /\ outcome[e] = "skipped"
                /\ Cardinality(C1_PointerFilesOf(generate_key(e))) = 1

C1_Witness ==
    /\ C1_RunRepeated
    /\ \E e \in entries : h_prev.outcome[e] = "written" /\ outcome[e] = "skipped"

\* C7: an entry one of whose oracle lookups used up its attempts on
\* rate-limit answers is classified excluded and gets no pointer file.
C7_UsedUpMeansExcluded ==
    \A e \in exhausted : e \notin allowed /\ outcome[e] # "written"

\* C8: in the reuse pass a deduplicated entry goes to the oracle if and only
\* if its key is not in the existing-media inventory and the decision cache
\* has no record of the key with allowed 0 or 1; every entry that goes to
\* the oracle is classified before the write phase starts.
C8_SentToOracleIffUndecided ==
    /\ phase \in {"classify", "write"} =>
           \A e \in entries :
               e \in to_check <=>
                   /\ generate_key(e) \notin existing_media
                   /\ ~ /\ generate_key(e) \in DOMAIN strm_cache
                        /\ strm_cache[generate_key(e)].allowed \in {"0", "1"}
    /\ phase = "write" => to_check \subseteq allowed \cup excluded

C8_Witness ==
    /\ phase = "write"
    /\ \E e \in to_check : generate_key(e) \in DOMAIN strm_cache
    /\ \E e \in entries \ to_check : generate_key(e) \notin existing_media

\* C9: every entry classified excluded has, once the run has persisted its
\* cache, the record (url, path null, allowed 0); and no run sends to the
\* oracle an entry whose key an earlier completed run excluded and
\* persisted.
C9_ExcludedRecordedNotRequeried ==
    /\ phase \in {"cleanup", "done"} =>
           \A e \in excluded :
               /\ generate_key(e) \in DOMAIN strm_cache
               /\ strm_cache[generate_key(e)] =
                      [url |-> VODEntry[e].url, path |-> NoPath, allowed |-> "0"]
    /\ \A e \in to_check : generate_key(e) \notin h_excluded

C9_Witness ==
    /\ run = "second"
    /\ phase = "done"
    /\ \E e \in excluded : generate_key(e) \in h_excluded /\ e \in reused_excluded
    /\ \E e \in excluded : e \in to_check

\* C11: a failure of write_strm_file for one entry stays with that entry:
\* the run is not ended by it, every other allowed entry is still handled
\* before the cache is persisted, and the failed entry is not recorded as
\* written (its cache record is the one the run started with, or none).
C11_WriteFailureConfined ==
    /\ phase = "aborted" => \A e \in EntryIds : outcome[e] = "none"
    /\ phase \in {"cleanup", "done"} => \A e \in allowed : outcome[e] # "none"
    /\ phase = "write" =>
           \A e \in allowed :
               outcome[e] = "error" =>
                   /\ generate_key(e) \in DOMAIN new_cache <=> generate_key(e) \in DOMAIN strm_cache
                   /\ generate_key(e) \in DOMAIN new_cache =>
                          new_cache[generate_key(e)] = strm_cache[generate_key(e)]

C11_Witness ==
    /\ phase = "done"
    /\ \E e \in allowed : outcome[e] = "error"
    /\ \E e \in allowed : outcome[e] = "written"

\* C12: at every point of a run before the final cache persistence (the
\* points where an interrupt can end the run), the persisted store, that is
\* the existing-media inventory table and the entry decision table, is the
\* store the run started with.
C12_StoreInPreRunState ==
    phase \in {"classify", "write", "aborted"} =>
        /\ existing_media = h_store.existing_media
        /\ strm_cache = h_store.strm_cache

\* C13: once the inventory step of a run has been done, the persisted
\* existing-media inventory is exactly the library scan of that run: a key
\* of an earlier scan that the library no longer holds is not in it.
C13_InventoryIsFreshScan ==
    phase # "idle" => existing_media = library /\ existing_keys = library

C13_Witness ==
    /\ run = "second"
    /\ phase = "done"
    /\ h_store.existing_media # {}
    /\ \E k \in h_store.existing_media : k \notin library /\ k \notin existing_media

\* C17: for an allowed entry that process_entry did not skip and counted as
\* written, after the write phase the pointer file at the entry's path
\* holds exactly the entry's URL, and the new cache record of its key holds
\* that URL, the resolved path and allowed = 1.
C17_WrittenFileHoldsUrl ==
    phase \in {"write", "cleanup"} =>
        \A e \in allowed :
            outcome[e] = "written" =>
                /\ rel_path(e) \in DOMAIN output_dir.files
                /\ output_dir.files[rel_path(e)] = VODEntry[e].url
                /\ generate_key(e) \in DOMAIN new_cache
                /\ new_cache[generate_key(e)] =
                       [url |-> VODEntry[e].url, path |-> rel_path(e), allowed |-> "1"]

\* C20: the phases of run_pipeline follow one another: a step in which
\* process_entry handles an entry is taken only when every entry has been
\* classified, a step that changes the persisted decision table only when
\* every write task has finished, and a step in which cleanup_strm_tree
\* changes the output tree only when the decision table has been persisted.
C20_PhasesSequential ==
    [][/\ (\E e \in DOMAIN outcome \cap DOMAIN outcome' :
              outcome[e] = "none" /\ outcome'[e] # "none")
          => /\ to_check \subseteq allowed \cup excluded
             /\ reused_allowed \subseteq allowed
             /\ reused_excluded \subseteq excluded
             /\ entries \subseteq allowed \cup excluded
       /\ strm_cache' # strm_cache
          => \A e \in allowed : outcome[e] # "none"
       /\ (output_dir' # output_dir /\ outcome' = outcome)
          => /\ strm_cache = new_cache
             /\ \A e \in allowed : outcome[e] # "none"]_vars

C20_Witness ==
    /\ phase = "done"
    /\ \E e \in to_check \cap allowed : outcome[e] = "written"
    /\ \E e \in to_check : e \in excluded
    /\ strm_cache # h_store.strm_cache
    /\ strm_cache = new_cache
    /\ h_prev.done
    /\ \E f \in DOMAIN LegacyTree.files : f \notin DOMAIN output_dir.files

\* C10: no exception raised while one entry is classified or written ends
\* the run before cache persistence and orphan cleanup.
C10_NoEntryEndsTheRun == phase # "aborted"

\* The entries of the run whose key is in the existing-media inventory.
C29_LocallyPresent == {e \in entries : generate_key(e) \in existing_keys}

\* C29: an entry whose key is in the existing-media inventory is not sent
\* to the oracle; when the write pool has finished it is counted as skipped
\* and the new cache holds (url, path NULL, allowed 1) for its key; when
\* the run is complete there is no pointer file at its path.
C29_LocalEntrySkippedAndRecorded ==
    \A e \in C29_LocallyPresent :
        /\ phase # "idle" => e \notin to_check
        /\ phase \in {"cleanup", "done"} =>
              /\ outcome[e] = "skipped"
              /\ HasRecord(new_cache, generate_key(e))
              /\ new_cache[generate_key(e)] =
                     [url |-> VODEntry[e].url, path |-> NoPath, allowed |-> "1"]
        /\ phase = "done" => rel_path(e) \notin DOMAIN output_dir.files

\* The pointer files of the tree that lie under a category root.
C33_PointerFiles(t) ==
    {f \in DOMAIN t.files : EndsWithStrm(Name(f)) /\ f[1] \in protected_roots}

\* C33: after every completed run each record of the persisted cache with
\* allowed 1 and a non-null path has a pointer file at that path whose
\* content is the record's URL, and each pointer file under the category
\* roots is the path of some record.
C33_TreeAndCacheAgree ==
    phase = "done" =>
        /\ \A k \in DOMAIN strm_cache :
              (strm_cache[k].allowed = "1" /\ strm_cache[k].path # NoPath) =>
                  /\ strm_cache[k].path \in DOMAIN output_dir.files
                  /\ output_dir.files[strm_cache[k].path] = strm_cache[k].url
        /\ \A f \in C33_PointerFiles(output_dir) :
              \E k \in DOMAIN strm_cache : strm_cache[k].path = f

\* C34 as claimed: after a completed run every pointer file left under the
\* category roots is the pointer file of an allowed entry of the playlist
\* parsed by that run.
C34_OnlyFilesOfThePlaylist ==
    phase = "done" =>
        \A f \in C33_PointerFiles(output_dir) : \E e \in allowed : rel_path(e) = f

\* The entries the run before wrote a pointer file for and whose key is
\* neither in the playlist of this run nor in its inventory.
C34_RemovedFromPlaylist ==
    {e \in EntryIds :
        /\ h_prev.done
        /\ h_prev.outcome[e] = "written"
        /\ generate_key(e) \notin {generate_key(x) : x \in entries}
        /\ generate_key(e) \notin existing_keys}

\* C34 as amended: after a completed run with a non-empty cache every
\* pointer file left under the category roots is the path of a record of
\* the persisted cache, which starts as a copy of the stored one: the
\* pointer file that the run before wrote for an entry since removed from
\* the playlist is still there, with its record.
C34_FilesOfTheCacheRemovedEntriesKept ==
    (phase = "done" /\ DOMAIN strm_cache # {}) =>
        /\ \A f \in C33_PointerFiles(output_dir) :
              \E k \in DOMAIN strm_cache : strm_cache[k].path = f
        /\ \A e \in C34_RemovedFromPlaylist :
              /\ rel_path(e) \in DOMAIN output_dir.files
              /\ HasRecord(strm_cache, generate_key(e))
              /\ strm_cache[generate_key(e)].path = rel_path(e)

\* A completed run over a playlist that has lost an entry of the run before.
C34_Witness ==
    /\ phase = "done"
    /\ entries # {}
    /\ \E e \in C34_RemovedFromPlaylist : rel_path(e) \in DOMAIN output_dir.files

\* The entries of the run that process_entry wrote a pointer file for.
C35_Written == {e \in DOMAIN outcome : outcome[e] = "written"}

\* C35 as claimed: a pointer file is written only for an entry whose key
\* the oracle has classified allowed, in this run or in an earlier one.
C35_WrittenOnlyIfOracleAllowed ==
    \A e \in C35_Written : generate_key(e) \in h_allowed

\* The keys that the run before, a completed one, found in the existing-
\* media inventory and recorded with allowed 1 without an oracle call.
C35_RecordedAsLocal ==
    {generate_key(e) : e \in {x \in EntryIds :
        /\ h_prev.done
        /\ x \in h_prev.entries
        /\ generate_key(x) \in h_prev.library
        /\ h_prev.outcome[x] = "skipped"}}

\* C35 as amended: a pointer file is written only for an entry whose key
\* the oracle has classified allowed, in this run or in an earlier one, or
\* whose key an earlier completed run found in the existing-media inventory
\* and recorded with allowed 1.
C35_WrittenOnlyIfAllowedOrLocal ==
    \A e \in C35_Written :
        generate_key(e) \in h_allowed \cup C35_RecordedAsLocal

\* A pointer file written for a key that was in the inventory of the run
\* before and that the oracle has never seen.
C35_Witness ==
    \E e \in C35_Written :
        /\ generate_key(e) \in C35_RecordedAsLocal
        /\ generate_key(e) \notin h_allowed

\* The run directly follows a completed run over the same playlist with the
\* same existing-media inventory.
C36_FollowsSameRun ==
    /\ run = "second"
    /\ phase \in {"classify", "write", "cleanup", "done"}
    /\ h_prev.done
    /\ h_prev.entries = entries
    /\ h_prev.library = library

\* C36: in a run that directly follows a completed run over the same
\* playlist with unchanged local media, no entry is sent to the oracle: every
\* entry is resolved from the inventory or from the decision cache.
C36_NoOracleCallInRepeatedRun ==
    C36_FollowsSameRun => to_check = {}

(***************************************************************************)
(* Claims about the web job, checked under SpecWebJob.                     *)
(***************************************************************************)
\* A completed job that was not a dry run has persisted its new cache.
C40_CachePersisted ==
    (j_phase = "done" /\ ~j_dry) => j_store = j_new_cache

\* No entry whose key the job before, completed and not a dry run, got a
\* decision for is sent to the oracle again.
C40_DecisionReused ==
    (j_job = "second" /\ h_job.done /\ ~h_job.dry) =>
        \A e \in j_to_check : generate_key(e) \notin h_job.decided

\* C40: the web job persists the updated decision cache at the end of a
\* non-dry run, so that a decision made in one web job is reused by the next
\* job without a new oracle call.
C40_PersistedAndReused == C40_CachePersisted /\ C40_DecisionReused

(***************************************************************************)
(* Claims about the counters of the write pool, checked under              *)
(* SpecCounters.                                                           *)
(***************************************************************************)
\* C37: at the end of the write phase written_count + skipped_count is the
\* number of allowed entries that process_entry handled without error or
\* early return, for every interleaving of the worker threads.
C37_CountersAddUp ==
    w_phase = "joined" => written_count + skipped_count = w_counted

(***************************************************************************)
(* Claims about the deduplication, checked under SpecDedup.                *)
(***************************************************************************)
\* C14: after the deduplication no two entries have the same key, every key
\* of the parsed playlist is the key of exactly one entry, and the entry
\* kept for a key is the last entry of that key in parse order.
C14_LastOfEachKeyKept ==
    d_pc = "done" =>
        /\ \A a, b \in d_entries : generate_key(a) = generate_key(b) => a = b
        /\ {generate_key(e) : e \in d_entries}
               = {generate_key(d_playlist[j]) : j \in DOMAIN d_playlist}
        /\ \A e \in d_entries :
               \E j \in DOMAIN d_playlist :
                   /\ d_playlist[j] = e
                   /\ \A k \in DOMAIN d_playlist :
                          generate_key(d_playlist[k]) = generate_key(e) => k <= j
        /\ d_entries = Deduplicate(d_playlist)

C14_Witness ==
    /\ d_pc = "done"
    /\ Len(d_playlist) = 3
    /\ \E j, k \in DOMAIN d_playlist :
           /\ j < k
           /\ d_playlist[j] # d_playlist[k]
           /\ generate_key(d_playlist[j]) = generate_key(d_playlist[k])
    /\ Cardinality(d_entries) = 2

(***************************************************************************)
(* Claims about parse_m3u, checked under SpecParse.                        *)
(***************************************************************************)
\* C15: an entry whose group-title is "docs" in any letter case gets the
\* category tvshow and one whose group-title is "doc" gets documentary,
\* whatever the movie, tv, documentary and replay keyword lists hold.
C15_DocsIsTvDocIsDocumentary ==
    g_pc = "done" =>
        /\ g_group \in {"docs", "DOCS", " Docs "} => g_cat = "tvshow"
        /\ g_group \in {"doc", "Doc"} => g_cat = "documentary"

C15_Witness ==
    /\ g_pc = "done"
    /\ g_appended
    /\ g_group = "DOCS"
    /\ g_cat = "tvshow"
    /\ "Docs" \in g_keywords.movie
    /\ "Docs" \in g_keywords.doc
    /\ "Docs" \in g_keywords.replay

(***************************************************************************)
(* Claims about the canonical keys, checked under SpecKey.                 *)
(***************************************************************************)
\* C18: two titles that differ only in letter case, punctuation, separators
\* or quality tags get the same key from canonical_movie_key, "The Matrix
\* (1999)" and "the.matrix.1999.1080p" among them.
C18_SameKeyUpToNoise ==
    k_pc = "done" =>
        /\ k_keys.a = k_keys.b
        /\ (k_titles.a = TheMatrix1999 /\ k_titles.b = theMatrix1999Dotted) =>
               k_keys.a = k_keys.b

(***************************************************************************)
(* Claims about the pre-filter, checked under SpecPreFilter.               *)
(***************************************************************************)
\* C19: should_skip_tmdb returns skip = True exactly for the titles that
\* match a non-US pattern or contain a language indicator, and skip = False
\* for every other title.
C19_SkipExactlyMatching ==
    f_pc = "done" =>
        (f_skip <=> (MatchesNonUsPattern(f_title)
                        \/ ContainsLanguageIndicator(LowerTitle(f_title))))

\* C23: an entry whose group-title equals, letter case aside, one of the
\* configured documentary keywords gets the category documentary.
C23_DocKeywordIsDocumentary ==
    (/\ g_pc = "done"
     /\ g_group # "None"
     /\ group_lower(g_group) \in Normalised(g_keywords.doc))
        => g_cat = "documentary"

\* C24: an entry whose group-title is in no configured keyword set (and is
\* neither "doc" nor "docs") and whose title holds a season/episode pattern
\* gets the category tvshow; movie is given only when neither the group nor
\* a title heuristic decides.
C24_EpisodeTitleIsTv ==
    (/\ g_pc = "done"
     /\ group_lower(g_group) \notin {"doc", "docs"}
     /\ group_lower(g_group) \notin Normalised(g_keywords.movie) \cup Normalised(g_keywords.tv)
            \cup Normalised(g_keywords.doc) \cup Normalised(g_keywords.replay)
     /\ HasEpisodePattern(g_title))
        => g_cat = "tvshow"

(***************************************************************************)
(* Claims about the line loop of parse_m3u, checked under SpecLines.       *)
(***************************************************************************)
\* The #EXTINF line that is buffered when line j is read: the last line
\* before j that is an #EXTINF line or a URL line, when it is an #EXTINF
\* line; 0 when there is none.
C25_BufferedAt(lines, j) ==
    LET before == {i \in 1..(j - 1) : lines[i].kind \in {"extinf", "url"}}
        last == CHOOSE i \in before : \A k \in before : k <= i
    IN  IF before # {} /\ lines[last].kind = "extinf" THEN last ELSE 0

RECURSIVE C25_Sorted(_)
C25_Sorted(js) ==
    IF js = {} THEN << >>
    ELSE LET j == CHOOSE x \in js : \A y \in js : x <= y
         IN  <<j>> \o C25_Sorted(js \ {j})

C25_EntriesOf(lines, flushing) ==
    LET js == C25_Sorted(flushing)
    IN  [n \in 1..Len(js) |->
            [raw_title |-> lines[C25_BufferedAt(lines, js[n])].title,
             group |-> lines[C25_BufferedAt(lines, js[n])].group,
             url |-> lines[js[n]].url]]

\* C25 as claimed: the entries are, in the order of the lines, one for each
\* URL line read while an #EXTINF line is buffered, with the title and
\* group of that line; nothing else is emitted.
C25_OneEntryPerBufferedUrl ==
    m_pc = "done" =>
        m_entries = C25_EntriesOf(m_lines,
            {j \in DOMAIN m_lines :
                m_lines[j].kind = "url" /\ C25_BufferedAt(m_lines, j) # 0})

\* C25 as amended: the same for the URL lines read while an #EXTINF line
\* with a title that is not empty and holds no ignore keyword is buffered;
\* an #EXTINF line without title buffers nothing, and a URL line read while
\* a title with an ignore keyword is buffered clears the buffer and emits
\* nothing.
C25_OneEntryPerUsableBufferedUrl ==
    m_pc = "done" =>
        m_entries = C25_EntriesOf(m_lines,
            {j \in DOMAIN m_lines :
                /\ m_lines[j].kind = "url"
                /\ C25_BufferedAt(m_lines, j) # 0
                /\ m_lines[C25_BufferedAt(m_lines, j)].title # ""
                /\ ~HoldsIgnoreKeyword(m_lines[C25_BufferedAt(m_lines, j)].title)})

C25_Witness ==
    /\ m_pc = "done"
    /\ m_lines = <<ExtinfLine("A", "g"), ExtinfLine("B", "None"), UrlLine("http://u1"),
                   UrlLine("http://u2")>>
    /\ m_entries = <<[raw_title |-> "B", group |-> "None", url |-> "http://u1"]>>

(***************************************************************************)
(* Claims about the rate limiter, checked under SpecLimiter.               *)
(***************************************************************************)
\* C5: for every interleaving of concurrent callers of RateLimiter.acquire
\* on one shared limiter, any two successive permit grants are at least the
\* configured delay apart.
C5_MinimumSpacing ==
    l_prevGrant # NoGrant => l_lastGrant - l_prevGrant >= Delay

\* The clock of the model has stopped before the end of a sleep.
C32_ClockStopped == \E u \in Threads : l_pc[u] = "sleeping" /\ l_wake[u] > MaxTime

\* C32: every call of RateLimiter.acquire comes to an end, by a return or
\* by an exception (as long as the clock of the model runs): no caller stays
\* blocked forever.
C32_AcquireReturns ==
    \A t \in Threads :
        (l_pc[t] = "test") ~> (l_pc[t] \in {"idle", "raised"} \/ C32_ClockStopped)

C16_JapaneseExcluded ==
    (/\ r_pc = "done"
     /\ IsMovieLike(r_cat)
     /\ HasResults(UsedSearch(r_year, r_s1, r_s2))
     /\ UsedSearch(r_year, r_s1, r_s2).lang = "ja")
        => r_result = "excluded"

C16_Witness ==
    /\ r_pc = "done"
    /\ r_cat = "documentary"
    /\ HasResults(r_s1)
    /\ r_s1.lang = "ja"
    /\ r_s1.id
    /\ r_det.st = "data"
    /\ r_det.countries \cap r_countries # {}
    /\ r_result = "excluded"

\* C21: a TV entry whose chosen search result has original_language "ja"
\* is excluded, however the show-details lookup ends, also when it gives
\* nothing.
C21_JapaneseTvExcluded ==
    (/\ r_pc = "done"
     /\ r_cat = "tvshow"
     /\ HasResults(r_s1)
     /\ r_s1.lang = "ja")
        => r_result = "excluded"

\* C22: a movie whose best search result has an identifier and
\* original_language "en" is allowed when the country allow-list is empty,
\* however the release-country lookup ends.
C22_EnglishMovieAllowedWithoutAllowList ==
    (/\ r_pc = "done"
     /\ r_cat = "movie"
     /\ r_countries = {}
     /\ HasResults(UsedSearch(r_year, r_s1, r_s2))
     /\ UsedSearch(r_year, r_s1, r_s2).id
     /\ UsedSearch(r_year, r_s1, r_s2).lang = "en")
        => r_result = "allowed"

\* The details lookup came back with nothing: _tmdb_get or _make_request
\* returned None (with_retry's own giving up is a raise, not a return).
DetailsGaveNothing(mode, det) ==
    det.st = "failed" \/ (mode = "make_request" /\ det.st = "exhausted")

\* The release lookup did not get a 200 answer.
ReleaseLookupFailed(det) == det.st \in {"failed", "exhausted", "body429"}

\* C27: a TV entry whose chosen result has an identifier and whose
\* show-details lookup returns nothing is allowed (fail-open); a movie
\* whose release-country lookup fails is excluded.
C27_TvFailOpenMovieFailClosed ==
    /\ (/\ r_pc = "done"
        /\ r_cat = "tvshow"
        /\ HasResults(r_s1)
        /\ r_s1.id
        /\ DetailsGaveNothing(r_mode, r_det)) => r_result = "allowed"
    /\ (/\ r_pc = "done"
        /\ r_cat = "movie"
        /\ ReleaseLookupFailed(r_det)) => r_result = "excluded"

\* C31: within one retry loop the backoff delay never decreases from one
\* attempt to the next and never exceeds the cap of 30 seconds; a new loop
\* starts at 1.
C31_BackoffMonotoneCapped ==
    [][IF r_loops' = r_loops
       THEN r_delay <= r_delay' /\ r_delay' <= MaxDelay
       ELSE r_delay' = 1]_vars

\* The loop has made its last attempt and the delay has reached the cap.
C31_Witness ==
    /\ r_pc = "done"
    /\ r_attempt = max_retries
    /\ r_delay = MaxDelay

(***************************************************************************)
(* Claims about cleanup_strm_tree, checked under SpecCleanup.              *)
(***************************************************************************)
C_PointerFiles(t) == {f \in DOMAIN t.files : EndsWithStrm(Name(f))}

C_Ran == c_pc = "done" /\ << >> \in c_pre.dirs

\* C2: called with a non-empty cache, cleanup_strm_tree deletes every
\* pointer file whose path is not in the set of non-null paths of the cache
\* records, and deletes no pointer file whose path is in that set.
C2_OrphansDeletedValidKept ==
    (C_Ran /\ DOMAIN c_cache # {}) =>
        \A f \in C_PointerFiles(c_pre) :
            (f \in DOMAIN c_tree.files) <=> (f \in ValidPaths(c_cache))

C2_Witness ==
    /\ C_Ran
    /\ DOMAIN c_cache # {}
    /\ \E f \in C_PointerFiles(c_pre) : f \notin DOMAIN c_tree.files
    /\ \E f \in C_PointerFiles(c_pre) : f \in DOMAIN c_tree.files

\* C3: cleanup_strm_tree never removes a top-level category root directory
\* (Movies, TV Shows, Documentaries), also when the cleanup leaves it empty
\* or holding only sidecar files.
C3_CategoryRootsKept ==
    c_pc = "done" =>
        \A d \in c_pre.dirs :
            (Len(d) = 1 /\ Name(d) \in protected_roots) => d \in c_tree.dirs

\* A root that the cleanup emptied, and a root left with sidecar files only.
C3_Witness ==
    /\ C_Ran
    /\ \E d \in c_tree.dirs :
         /\ Len(d) = 1 /\ Name(d) \in protected_roots
         /\ SubdirsIn(c_pre, d) # {}
         /\ SubdirsIn(c_tree, d) = {}
         /\ FilesIn(c_tree, d) = {}
    /\ \E d \in c_tree.dirs :
         /\ Len(d) = 1 /\ Name(d) \in protected_roots
         /\ SubdirsIn(c_pre, d) # {}
         /\ SubdirsIn(c_tree, d) = {}
         /\ FilesIn(c_tree, d) # {}
         /\ \A f \in FilesIn(c_tree, d) : SuffixLowerIsNfo(Name(f))

\* C4: when the cache passed to cleanup_strm_tree is empty, cleanup removes
\* no file and no directory: the output tree is unchanged.
C4_EmptyCacheNoCleanup ==
    (c_pc = "done" /\ DOMAIN c_cache = {}) => c_tree = c_pre

\* An empty cache and a tree that a cleanup would have changed.
C4_Witness ==
    /\ C_Ran
    /\ DOMAIN c_cache = {}
    /\ C_PointerFiles(c_pre) # {}
    /\ \E d \in c_pre.dirs : Len(d) > 1 /\ FilesIn(c_pre, d) = {} /\ SubdirsIn(c_pre, d) = {}

\* The top-level category roots.
C30_ProtectedRoot(d) == Len(d) = 1 /\ Name(d) \in protected_roots

\* The directory has no subdirectory and no file other than .nfo sidecars:
\* it is empty or holds sidecars only.
C30_EmptyOrSidecarsOnly(t, d) ==
    /\ SubdirsIn(t, d) = {}
    /\ \A f \in FilesIn(t, d) : SuffixLowerIsNfo(Name(f))

\* The files of d that are neither sidecars nor orphan pointer files.
C30_OtherFiles(t, d, cache) ==
    {f \in FilesIn(t, d) :
        /\ ~SuffixLowerIsNfo(Name(f))
        /\ ~(EndsWithStrm(Name(f)) /\ f \notin ValidPaths(cache))}

\* C30: after cleanup_strm_tree no directory below the output root, the
\* protected roots aside, is empty or holds .nfo sidecars only with no
\* subdirectory (a parent emptied by the removal of its children is gone
\* as well), and every directory that holds any other file is still there.
C30_EmptyDirectoriesRemoved ==
    C_Ran =>
        /\ \A d \in c_tree.dirs :
              (Len(d) > 0 /\ ~C30_ProtectedRoot(d)) => ~C30_EmptyOrSidecarsOnly(c_tree, d)
        /\ \A d \in c_pre.dirs :
              C30_OtherFiles(c_pre, d, c_cache) # {} => d \in c_tree.dirs

(***************************************************************************)
(* Claims about the lookup cache, checked under SpecLookup.                *)
(***************************************************************************)

\* C26: every search and details lookup consults the lookup cache before
\* the network: a lookup whose key is cached makes no HTTP request, and a
\* lookup that missed and whose request succeeded leaves its result stored
\* under the key.
C26_CacheBeforeNetwork ==
    /\ t_last.cached => ~t_last.http
    /\ (t_last.http /\ t_last.ok) => IsCached(t_store[t_last.key])

(***************************************************************************)
(* Claims about the choice of the TV result, checked under SpecSelect.     *)
(***************************************************************************)

\* The results of the year when a year is known and one of them is of that
\* year, every result otherwise.
C28_Candidates ==
    LET ofYear == {i \in DOMAIN s_results :
                      StartsWith(s_results[i].first_air_date, s_year)} IN
    IF s_year # "None" /\ ofYear # {} THEN ofYear ELSE DOMAIN s_results

\* The candidates whose origin countries meet the allow-list, or every
\* candidate when none does.
C28_Pool ==
    LET meets == {i \in C28_Candidates :
                     s_results[i].origin_country \cap s_allowed # {}} IN
    IF meets # {} THEN meets ELSE C28_Candidates

\* C28: the result used for the decision has the highest popularity among
\* the candidates whose origin-country list intersects the allowed set, or
\* among all candidates when none intersects; the candidates are the
\* results whose first-air-date starts with the year when a year is known
\* and at least one such result exists, every result otherwise.
C28_BestIsMostPopularPreferred ==
    s_pc = "done" =>
        /\ s_best \in C28_Pool
        /\ \A j \in C28_Pool : s_results[j].popularity <= s_results[s_best].popularity

\* A year is known; the most popular result is of another year, the most
\* popular of the year has a foreign origin, and the third result is used.
C28_Witness ==
    /\ s_pc = "done"
    /\ s_year = "1999"
    /\ s_allowed = {"US"}
    /\ Len(s_results) = 3
    /\ s_results[1] = [popularity |-> 2, origin_country |-> {"US"}, first_air_date |-> "2005-01-09"]
    /\ s_results[2] = [popularity |-> 1, origin_country |-> {"FR"}, first_air_date |-> "1999-05-01"]
    /\ s_results[3] = [popularity |-> 0, origin_country |-> {"US"}, first_air_date |-> "1999-05-01"]
    /\ s_best = 3

(***************************************************************************)
(* Claims about cleanup_strm_tree on the whole output root, checked under  *)
(* SpecCleanup.                                                            *)
(***************************************************************************)
\* The pointer files under the output root's "Live TV" directory, where
\* LiveTVProcessor.generate_strm_files writes them.
C38_LiveTvPointerFiles(t) == {f \in C_PointerFiles(t) : f[1] = "Live TV"}

\* C38: orphan cleanup deletes pointer files only inside the three category
\* roots: the pointer files under "Live TV" are still present after cleanup.
C38_LiveTvKept ==
    C_Ran =>
        /\ C38_LiveTvPointerFiles(c_pre) \subseteq DOMAIN c_tree.files
        /\ \A f \in C_PointerFiles(c_pre) :
               f \notin DOMAIN c_tree.files => f[1] \in protected_roots

\* The files the call deleted.
C39_Deleted == DOMAIN c_pre.files \ DOMAIN c_tree.files

\* C39: cleanup_strm_tree never deletes a file that is neither a .strm
\* pointer file nor a .nfo sidecar file.
C39_OnlyPointersAndSidecarsDeleted ==
    C_Ran =>
        \A f \in C39_Deleted : EndsWithStrm(Name(f)) \/ SuffixLowerIsNfo(Name(f))

\* The same for the regular files of the tree.
C39_RegularFilesKept ==
    C_Ran =>
        \A f \in C39_Deleted :
            is_file(f) => (EndsWithStrm(Name(f)) \/ SuffixLowerIsNfo(Name(f)))

====
